---- MODULE Spec2Model ----
(***************************************************************************)
(* Model of the NeuralMix P2P audio engine: class AudioSync (audioSync.js,  *)
(* carried in INTEGRATION.md lines 815-1607) and the parts of class         *)
(* AnalogDeck (analogDeck.js) that drive it.                                *)
(*                                                                          *)
(* Numbers.  Times (audioContext.currentTime, offsets, durations) are       *)
(* whole seconds.  Rates and gains are exact rationals <<n, d>> in lowest   *)
(* terms with d > 0, so that r * M / S is computed, not approximated.       *)
(***************************************************************************)
EXTENDS Integers, Sequences, FiniteSets, TLC

\* ------------------------------------------------------------------ bounds
\* Last value of audioContext.currentTime the model explores.
MaxClock == 3
\* Number of AudioBufferSourceNode objects alive at once (playing, or ended
\* with the 'ended' event not yet delivered, or still held in deck.source).
MaxSources == 2
\* Number of loadAudioFile calls in flight at once, where a load is one step
\* among others and where the loads of one deck interleave.
MaxLoads == 1
MaxPending == 2
\* Number of MediaStreams open at once, of TimecodeDetector polling loops
\* alive at once, and of level-monitoring loops alive per deck.
MaxStreams == 2
MaxDetectors == 2
MaxMonitors == 1
MaxLoops == 2
MaxMics == 2
\* Largest numerator or denominator of a playback rate the model explores.
MaxRateTerm == 40
\* Largest number of samples in a buffer handed to detectBPM directly.
MaxSamples == 8

\* ------------------------------------------------------------------ inputs
DeckIds == {"a", "b"}
\* Audio files that decode: each has a duration (seconds) and samples for
\* which detectBPM estimates the tempo in its name.
Files == {"short128", "long124", "long60"}
\* A file whose bytes decodeAudioData rejects.
BadFile == "bad"
FileDuration(f) == IF f = "short128" THEN 2 ELSE 3
\* Buffers handed to detectBPM: sample values (-0.5, 0 and 1), sample rates
\* in Hz (0, and two rates at which 8 samples hold several beats), and the
\* rate at which the low-pass filter halves each step.
SampleInputs == {<<-1, 2>>, <<0, 1>>, <<1, 1>>}
SampleRateInputs == {0, 8, 10}
FilterRateInput == 1257
\* The arguments after deckId of a play call: none, or the offset.
OffsetInputs == {<<>>, <<0>>, <<1>>, <<2>>}
SeekInputs == {-1, 0, 1, 5}
\* Arguments of setPlaybackRate: 0.1, 0.5, 1.0, 1.25, 3.0.
RateInputs == {<<1, 10>>, <<1, 2>>, <<1, 1>>, <<5, 4>>, <<3, 1>>}
\* Arguments of setVolume: -1, 0.5, 2.
VolumeInputs == {<<-1, 1>>, <<1, 2>>, <<2, 1>>}
\* Arguments of setEQ: a band name (one of them unknown) and a gain in dB.
BandInputs == {"high", "mid", "low", "sub"}
GainInputs == {<<-50, 1>>, <<6, 1>>, <<50, 1>>}
\* MIDI: the input ports, the status bytes (note-off, note-on and
\* control-change on channel 0, pitch-bend on channel 1), the data bytes.
MidiInputIds == {"in1"}
StatusInputs == {128, 144, 176, 225}
NoteInputs == {11, 13}
DataInputs == {0, 64, 127}
\* Timecode samples: speed = 1.0 + (Math.random() - 0.5) * 0.2 lies in
\* [0.9, 1.1); direction is forward or backward.
SpeedInputs == {<<9, 10>>, <<1, 1>>, <<21, 20>>}
DirectionInputs == {"forward", "backward"}
TimecodeTypes == {"serato", "traktor"}

\* --------------------------------------------------------------- rationals
RECURSIVE GCD(_, _)
GCD(a, b) == IF b = 0 THEN a ELSE GCD(b, a % b)

Abs(n) == IF n < 0 THEN -n ELSE n

Rat(n, d) ==
    LET s == IF d < 0 THEN -1 ELSE 1
        g == GCD(Abs(n), Abs(d))
    IN  <<(s * n) \div g, (s * d) \div g>>

RMul(x, y) == Rat(x[1] * y[1], x[2] * y[2])
RAdd(x, y) == Rat(x[1] * y[2] + y[1] * x[2], x[2] * y[2])
RSub(x, y) == Rat(x[1] * y[2] - y[1] * x[2], x[2] * y[2])
\* Math.abs
MathAbs(x) == <<Abs(x[1]), x[2]>>
RLe(x, y) == x[1] * y[2] <= y[1] * x[2]
RLt(x, y) == x[1] * y[2] < y[1] * x[2]
\* Math.max and Math.min on two numbers.
MathMax(x, y) == IF RLe(x, y) THEN y ELSE x
MathMin(x, y) == IF RLe(x, y) THEN x ELSE y

\* ------------------------------------------- AudioSync: tempo estimation
\* Samples and the numbers computed from them are rationals or NaN (0/0 in
\* the code), on which every comparison is false.  The arithmetic is exact:
\* the rounding of doubles and of Float32Array elements is not modelled.
NaN == <<0, 0>>
IsNaN(x) == x[2] = 0
FAdd(x, y) == IF IsNaN(x) \/ IsNaN(y) THEN NaN ELSE RAdd(x, y)
FSub(x, y) == IF IsNaN(x) \/ IsNaN(y) THEN NaN ELSE RSub(x, y)
FMul(x, y) == IF IsNaN(x) \/ IsNaN(y) THEN NaN ELSE RMul(x, y)
\* x > y
FGt(x, y) == IF IsNaN(x) \/ IsNaN(y) THEN FALSE ELSE RLt(y, x)

\* An AudioBuffer as detectBPM reads it: channel 0 and the sample rate.
\* getChannelData(0) throws on a buffer without channels.
Buffer(numberOfChannels, data, sampleRate) ==
    [numberOfChannels |-> numberOfChannels, data |-> data,
     sampleRate |-> sampleRate]

\* alpha = dt / (RC + dt) with RC = 1 / (2 * Math.PI * cutoffFreq) and
\* dt = 1 / sampleRate, that is k / (k + sampleRate) for k = 2 * PI *
\* cutoffFreq, computed with PI = 22/7 and kept to the nearest quarter so
\* that the filtered samples have small denominators.  With sampleRate 0,
\* dt is Infinity and alpha is Infinity / Infinity.
Alpha(sampleRate, cutoffFreq) ==
    IF sampleRate = 0 THEN NaN
    ELSE LET k == 44 * cutoffFreq
             q == k + 7 * sampleRate
         IN  Rat((8 * k + q) \div (2 * q), 4)

\* filtered[0] = data[0]; filtered[i] = filtered[i - 1] + alpha * (data[i] -
\* filtered[i - 1]).  On an empty array the first store is out of range and
\* ignored.
RECURSIVE Filtered(_, _, _)
Filtered(data, alpha, n) ==
    IF n = 0 THEN <<>>
    ELSE IF n = 1 THEN <<data[1]>>
    ELSE LET f == Filtered(data, alpha, n - 1)
         IN  Append(f, FAdd(f[n - 1], FMul(alpha, FSub(data[n], f[n - 1]))))

lowPassFilter(data, sampleRate, cutoffFreq) ==
    Filtered(data, Alpha(sampleRate, cutoffFreq), Len(data))

RECURSIVE SumOfSquares(_, _)
SumOfSquares(data, n) ==
    IF n = 0 THEN <<0, 1>>
    ELSE FAdd(SumOfSquares(data, n - 1), FMul(data[n], data[n]))

\* rms * 1.5 with rms = Math.sqrt(sum / data.length).  The square root
\* leaves the rationals: the threshold is held as its square, 2.25 * sum /
\* length, which is 0 / 0 for an empty array.
calculateThreshold(data) ==
    IF Len(data) = 0 THEN NaN
    ELSE FMul(<<9, 4 * Len(data)>>, SumOfSquares(data, Len(data)))

\* x > threshold, for a threshold (never negative) held as its square.
AboveThreshold(x, thresholdSquared) ==
    FGt(x, <<0, 1>>) /\ FGt(FMul(x, x), thresholdSquared)

\* The loop of detectPeaks from index i (counted from 0, as in the code) to
\* data.length - 2: the accepted peak times, in seconds.
RECURSIVE PeaksFrom(_, _, _, _, _, _)
PeaksFrom(data, sampleRate, minPeakDistance, threshold, lastPeak, i) ==
    IF i >= Len(data) - 1 THEN <<>>
    ELSE IF /\ AboveThreshold(data[i + 1], threshold)
            /\ FGt(data[i + 1], data[i])
            /\ FGt(data[i + 1], data[i + 2])
            /\ (i - lastPeak) >= minPeakDistance
         THEN <<Rat(i, sampleRate)>>
              \o PeaksFrom(data, sampleRate, minPeakDistance, threshold,
                           i, i + 1)
         ELSE PeaksFrom(data, sampleRate, minPeakDistance, threshold,
                        lastPeak, i + 1)

\* Faulty variant of MinPeakDistance: no distance is required.
NoPeakDistance(sampleRate) == 0
\* Math.floor(sampleRate * 0.3)
MinPeakDistance(sampleRate) == (3 * sampleRate) \div 10

detectPeaks(data, sampleRate) ==
    LET minPeakDistance == MinPeakDistance(sampleRate)
        threshold == calculateThreshold(data)
    IN  PeaksFrom(data, sampleRate, minPeakDistance, threshold,
                  -minPeakDistance, 1)

\* intervals.push(peaks[i] - peaks[i - 1]) for i from 1.
Intervals(peaks) ==
    [i \in 1..(Len(peaks) - 1) |-> RSub(peaks[i + 1], peaks[i])]

\* x put into the ascending sequence s, after the elements equal to it.
RECURSIVE Insert(_, _)
Insert(s, x) ==
    IF s = <<>> THEN <<x>>
    ELSE IF RLt(x, s[Len(s)])
         THEN Append(Insert(SubSeq(s, 1, Len(s) - 1), x), s[Len(s)])
         ELSE Append(s, x)

\* intervals.sort((a, b) => a - b)
RECURSIVE Sort(_)
Sort(s) ==
    IF s = <<>> THEN <<>>
    ELSE Insert(Sort(SubSeq(s, 1, Len(s) - 1)), s[Len(s)])

\* Faulty variant of MedianInterval: the shortest interval is taken.
ShortestInterval(intervals) == Sort(intervals)[1]
\* intervals[Math.floor(intervals.length / 2)] of the sorted intervals.
MedianInterval(intervals) == Sort(intervals)[(Len(intervals) \div 2) + 1]

\* Math.round(x) for a rational x = 60 / medianInterval: floor(x + 0.5).
MathRound(x) == (2 * x[1] + x[2]) \div (2 * x[2])

\* Faulty variant of ClampBPM: the estimate is taken as computed.
BPMUnclamped(bpm) == bpm
\* Math.max(60, Math.min(200, bpm))
ClampBPM(bpm) ==
    LET m == IF bpm < 200 THEN bpm ELSE 200
    IN  IF m > 60 THEN m ELSE 60

\* The value the promise of detectBPM resolves with; an exception inside
\* the try block is caught and resolves it with 120.
detectBPM(buffer) ==
    IF buffer.numberOfChannels = 0 THEN 120
    ELSE
        LET audioData == buffer.data
            sampleRate == buffer.sampleRate
            filtered == lowPassFilter(audioData, sampleRate, 200)
            peaks == detectPeaks(filtered, sampleRate)
            intervals == Intervals(peaks)
        IN  IF Len(intervals) = 0 THEN 120
            ELSE LET medianInterval == MedianInterval(intervals)
                     bpm == MathRound(<<60 * medianInterval[2],
                                        medianInterval[1]>>)
                 IN  ClampBPM(bpm)

\* Channel 0 of a track: silence with two kicks 15 samples apart, at a
\* sample rate that puts them 60 / 128, 60 / 124 or 1 second apart.  The
\* samples stand for the start of the track, FileDuration for its length.
FileBuffer(f) ==
    Buffer(1, [i \in 1..18 |-> IF i \in {2, 17} THEN <<1, 1>> ELSE <<0, 1>>],
           CASE f = "short128" -> 32 [] f = "long124" -> 31 [] OTHER -> 15)

\* const bpm = await this.detectBPM(audioBuffer), for each track.
TrackBPM == [f \in Files |-> detectBPM(FileBuffer(f))]
FileBPM(f) == TrackBPM[f]

\* ------------------------------------------------------------------- state
VARIABLES
    audioContext,   \* "null" before initialize(), "running" after it
    clock,          \* audioContext.currentTime
    decks,          \* this.decks: deck id -> deck object
    sources,        \* the AudioBufferSourceNodes play() has created
    loads,          \* loadAudioFile calls suspended at an await
    syncState,      \* this.syncState
    started,        \* history: per playing deck, the arguments and the time
                    \* of the play call that created its current source
    last,           \* the most recent step: its name, arguments, result
                    \* and the callbacks it invoked
    analog,         \* the AnalogDeck instance's maps and fields
    streams,        \* MediaStreams opened by getUserMedia, not yet stopped
    detectors,      \* TimecodeDetector objects whose polling loop is alive
    monitors,       \* per deck, the level-monitoring loops that are alive
    inputs          \* AudioSync's microphone and remote-peer fields, and
                    \* the microphone streams opened and not yet stopped

hubVars == <<decks, sources, syncState, started>>
analogVars == <<analog, streams, detectors, monitors>>
vars == <<audioContext, clock, loads, hubVars, last, analogVars, inputs>>

\* ------------------------------------------------------ AudioSync: objects
\* deck.source = null and deck.buffer = null.
NoSource == 0
NoBuffer == "null"

\* The value a call returns: true or false, undefined, an object (a record),
\* or the exception it throws past the call.
Bool(b) == [boolean |-> b]
Undefined == [undefined |-> TRUE]
Thrown(e) == [thrown |-> e]
\* The arguments of a step that takes none beside its deck.
NoArgs == [none |-> TRUE]

\* The deck object createDeck builds, with its nodes' parameters: the gain
\* node's gain (1 when created) and the three filters' gains (set to 0).
NewDeck(deckId) ==
    [id |-> deckId, source |-> NoSource, buffer |-> NoBuffer,
     isPlaying |-> FALSE, currentTime |-> 0, startTime |-> 0, bpm |-> 0,
     duration |-> 0, playbackRate |-> <<1, 1>>,
     gain |-> <<1, 1>>, filterHigh |-> <<0, 1>>, filterMid |-> <<0, 1>>,
     filterLow |-> <<0, 1>>]

\* The AudioSync instance as the methods below read and write it; ret is the
\* value the call returns, emitted the callbacks it invoked.
Hub ==
    [decks |-> decks, sources |-> sources, syncState |-> syncState,
     started |-> started, ret |-> Undefined, emitted |-> <<>>]

\* The transport state of deck d as its fields show it: idle without a
\* buffer, playing while isPlaying is set, else loaded or paused (the deck
\* has no field that tells the two apart).
TransportState(dks, d) ==
    IF dks[d].buffer = NoBuffer THEN "idle"
    ELSE IF dks[d].isPlaying THEN "playing" ELSE "loadedOrPaused"

\* The record of a step: its name, target deck, arguments, result and the
\* callbacks it invoked, with the target deck's transport state and whether
\* it held a source node when the step began.
Step(op, deckId, arg, ret, emitted) ==
    [op |-> op, deck |-> deckId, arg |-> arg, ret |-> ret,
     emitted |-> emitted,
     was |-> IF deckId \in DOMAIN decks THEN TransportState(decks, deckId)
             ELSE "absent",
     held |-> IF deckId \in DOMAIN decks
              THEN decks[deckId].source # NoSource ELSE FALSE]

\* f without the key k.
Without(f, k) == [x \in DOMAIN f \ {k} |-> f[x]]
\* f with f[k] = v, whether or not k was a key.
With(f, k, v) == [x \in DOMAIN f \cup {k} |-> IF x = k THEN v ELSE f[x]]

\* ---------------------------------------------------- buffer source nodes
\* Faulty variant of StopSource: the call is lost and the node plays on.
StopSourceIgnored(srcs, s) == srcs

\* source.stop(): a playing node stops and its 'ended' event is queued; on a
\* node that has already ended the call changes nothing.
StopSource(srcs, s) ==
    IF srcs[s].playing
    THEN [srcs EXCEPT ![s].playing = FALSE, ![s].pendingEnded = TRUE]
    ELSE srcs

\* audioContext.createBufferSource(): a node not in use.
FreshSource(srcs) ==
    CHOOSE i \in 1..MaxSources \ DOMAIN srcs :
        \A j \in 1..MaxSources \ DOMAIN srcs : i <= j

\* Nodes that neither play, nor owe an 'ended' event, nor are held in a
\* deck.source are unreachable and dropped.  Of a node that no longer plays
\* the program can observe only the 'ended' event and the deck its handler
\* holds: the node's parameters, which nothing reads, are forgotten.
Collect(srcs, dks) ==
    LET live == {s \in DOMAIN srcs :
                    \/ srcs[s].playing
                    \/ srcs[s].pendingEnded
                    \/ \E d \in DOMAIN dks : dks[d].source = s}
    IN  [s \in live |->
            IF srcs[s].playing THEN srcs[s]
            ELSE [srcs[s] EXCEPT !.playbackRate = <<1, 1>>, !.mayEndAt = 0]]

\* ------------------------------------------------- AudioSync: transport
\* startOffset = offset || deck.currentTime || 0
StartOffset(offset, currentTime) ==
    IF offset # 0 THEN offset
    ELSE IF currentTime # 0 THEN currentTime ELSE 0

\* The wall-clock time from which a node started at `now` may run out of
\* buffer: the rate never exceeds 2.0, so never before half the remainder.
MayEndAt(now, duration, startOffset) ==
    LET rest == IF duration > startOffset THEN duration - startOffset ELSE 0
    IN  now + (rest + 1) \div 2

\* The default parameter of play(deckId, offset = 0).
OffsetParam(args) == IF Len(args) = 0 THEN 0 ELSE args[1]

play(h, deckId, args, now) ==
    IF deckId \notin DOMAIN h.decks THEN [h EXCEPT !.ret = Bool(FALSE)]
    ELSE IF h.decks[deckId].buffer = NoBuffer
    THEN [h EXCEPT !.ret = Bool(FALSE)]
    ELSE
        LET deck == h.decks[deckId]
            stopped == IF deck.source # NoSource
                       THEN StopSource(h.sources, deck.source)
                       ELSE h.sources
            id == FreshSource(stopped)
            startOffset == StartOffset(OffsetParam(args), deck.currentTime)
            source == [deck |-> deckId, playing |-> TRUE,
                       pendingEnded |-> FALSE,
                       playbackRate |-> deck.playbackRate,
                       mayEndAt |-> MayEndAt(now, deck.duration, startOffset)]
        IN  [h EXCEPT !.sources = stopped @@ (id :> source),
                      !.decks[deckId].source = id,
                      !.decks[deckId].isPlaying = TRUE,
                      !.decks[deckId].startTime = now - startOffset,
                      !.started = With(@, deckId, [args |-> args, at |-> now]),
                      !.ret = Bool(TRUE)]

pause(h, deckId, now) ==
    IF deckId \notin DOMAIN h.decks THEN [h EXCEPT !.ret = Bool(FALSE)]
    ELSE IF ~h.decks[deckId].isPlaying THEN [h EXCEPT !.ret = Bool(FALSE)]
    ELSE
        LET deck == h.decks[deckId]
        IN  [h EXCEPT !.sources = IF deck.source # NoSource
                                  THEN StopSource(h.sources, deck.source)
                                  ELSE h.sources,
                      !.decks[deckId].currentTime = now - deck.startTime,
                      !.decks[deckId].source = NoSource,
                      !.decks[deckId].isPlaying = FALSE,
                      !.started = Without(@, deckId),
                      !.ret = Bool(TRUE)]

\* Faulty variant of stop: the stored position is not reset.
stopKeepingPosition(h, deckId) ==
    IF deckId \notin DOMAIN h.decks THEN [h EXCEPT !.ret = Bool(FALSE)]
    ELSE
        LET deck == h.decks[deckId]
        IN  [h EXCEPT !.sources = IF deck.source # NoSource
                                  THEN StopSource(h.sources, deck.source)
                                  ELSE h.sources,
                      !.decks[deckId].source = NoSource,
                      !.decks[deckId].isPlaying = FALSE,
                      !.started = Without(@, deckId),
                      !.ret = Bool(TRUE)]

stop(h, deckId) ==
    IF deckId \notin DOMAIN h.decks THEN [h EXCEPT !.ret = Bool(FALSE)]
    ELSE
        LET deck == h.decks[deckId]
        IN  [h EXCEPT !.sources = IF deck.source # NoSource
                                  THEN StopSource(h.sources, deck.source)
                                  ELSE h.sources,
                      !.decks[deckId].source = NoSource,
                      !.decks[deckId].isPlaying = FALSE,
                      !.decks[deckId].currentTime = 0,
                      !.started = Without(@, deckId),
                      !.ret = Bool(TRUE)]

getCurrentTime(dks, deckId, now) ==
    IF deckId \notin DOMAIN dks THEN 0
    ELSE IF dks[deckId].isPlaying THEN now - dks[deckId].startTime
    ELSE dks[deckId].currentTime

\* Faulty variant of ClampTime: the time is taken as given.
TimeUnclamped(time, duration) == time

\* Math.max(0, Math.min(time, deck.duration))
ClampTime(time, duration) ==
    LET m == IF time < duration THEN time ELSE duration
    IN  IF m > 0 THEN m ELSE 0

seek(h, deckId, time, now) ==
    IF deckId \notin DOMAIN h.decks THEN [h EXCEPT !.ret = Undefined]
    ELSE IF h.decks[deckId].buffer = NoBuffer
    THEN [h EXCEPT !.ret = Undefined]
    ELSE
        LET wasPlaying == h.decks[deckId].isPlaying
            h1 == IF wasPlaying THEN pause(h, deckId, now) ELSE h
            t == ClampTime(time, h1.decks[deckId].duration)
            h2 == [h1 EXCEPT !.decks[deckId].currentTime = t]
            h3 == IF wasPlaying THEN play(h2, deckId, <<t>>, now) ELSE h2
        IN  [h3 EXCEPT !.ret = Undefined]

\* ------------------------------------------------- AudioSync: parameters
\* Math.max(lo, Math.min(hi, x))
Clamp(lo, hi, x) == MathMax(lo, MathMin(hi, x))

ClampVolume(volume) == Clamp(<<0, 1>>, <<1, 1>>, volume)
\* Faulty variant of ClampGain: the gain is taken as given.
GainUnclamped(gain) == gain
ClampGain(gain) == Clamp(<<-40, 1>>, <<40, 1>>, gain)
\* Faulty variant of ClampRate: the rate is taken as given.
RateUnclamped(rate) == rate
ClampRate(rate) == Clamp(<<1, 2>>, <<2, 1>>, rate)

\* Faulty variant of setVolume: a deck that is missing is created.
setVolumeCreating(h, deckId, volume) ==
    [h EXCEPT !.decks = With(@, deckId,
                  [(IF deckId \in DOMAIN @ THEN @[deckId] ELSE NewDeck(deckId))
                      EXCEPT !.gain = Clamp(<<0, 1>>, <<1, 1>>, volume)]),
              !.ret = Undefined]

setVolume(h, deckId, volume) ==
    IF deckId \in DOMAIN h.decks
    THEN [h EXCEPT !.decks[deckId].gain = ClampVolume(volume),
                   !.ret = Undefined]
    ELSE [h EXCEPT !.ret = Undefined]

setEQ(h, deckId, band, gain) ==
    IF deckId \notin DOMAIN h.decks THEN [h EXCEPT !.ret = Undefined]
    ELSE
        LET clampedGain == ClampGain(gain)
        IN  CASE band = "high" ->
                    [h EXCEPT !.decks[deckId].filterHigh = clampedGain,
                              !.ret = Undefined]
              [] band = "mid" ->
                    [h EXCEPT !.decks[deckId].filterMid = clampedGain,
                              !.ret = Undefined]
              [] band = "low" ->
                    [h EXCEPT !.decks[deckId].filterLow = clampedGain,
                              !.ret = Undefined]
              [] OTHER -> [h EXCEPT !.ret = Undefined]

\* Faulty variant of setPlaybackRate: the node that plays keeps its rate.
setPlaybackRateStoredOnly(h, deckId, rate) ==
    IF deckId \notin DOMAIN h.decks THEN [h EXCEPT !.ret = Undefined]
    ELSE [h EXCEPT !.decks[deckId].playbackRate =
                       Clamp(<<1, 2>>, <<2, 1>>, rate),
                   !.ret = Undefined]

\* Faulty variant of setPlaybackRate: a rate set by hand switches sync off.
setPlaybackRateUnsyncing(h, deckId, rate) ==
    IF deckId \notin DOMAIN h.decks THEN [h EXCEPT !.ret = Undefined]
    ELSE
        LET deck == h.decks[deckId]
            clampedRate == Clamp(<<1, 2>>, <<2, 1>>, rate)
        IN  [h EXCEPT !.decks[deckId].playbackRate = clampedRate,
                      !.sources =
                          IF deck.source # NoSource /\ deck.isPlaying
                          THEN [@ EXCEPT ![deck.source].playbackRate =
                                             clampedRate]
                          ELSE @,
                      !.syncState.syncEnabled = FALSE,
                      !.ret = Undefined]

setPlaybackRate(h, deckId, rate) ==
    IF deckId \notin DOMAIN h.decks THEN [h EXCEPT !.ret = Undefined]
    ELSE
        LET deck == h.decks[deckId]
            clampedRate == ClampRate(rate)
        IN  [h EXCEPT !.decks[deckId].playbackRate = clampedRate,
                      !.sources =
                          IF deck.source # NoSource /\ deck.isPlaying
                          THEN [@ EXCEPT ![deck.source].playbackRate =
                                             clampedRate]
                          ELSE @,
                      !.ret = Undefined]

\* ------------------------------------------------------ AudioSync: sync
\* Faulty variant of AdjustedRate: the BPM ratio is inverted.
InvertedRate(slaveRate, masterBPM, slaveBPM) ==
    RMul(slaveRate, Rat(slaveBPM, masterBPM))

\* adjustedRate = slaveDeck.playbackRate * (masterDeck.bpm / slaveDeck.bpm)
AdjustedRate(slaveRate, masterBPM, slaveBPM) ==
    RMul(slaveRate, Rat(masterBPM, slaveBPM))

\* Faulty variant of MissingBPM: the master's BPM is not looked at.
MissingSlaveBPM(h, masterDeckId, slaveDeckId) ==
    IF \/ masterDeckId \notin DOMAIN h.decks
       \/ slaveDeckId \notin DOMAIN h.decks
    THEN TRUE
    ELSE h.decks[slaveDeckId].bpm = 0

\* !masterDeck || !slaveDeck || !masterDeck.bpm || !slaveDeck.bpm
MissingBPM(h, masterDeckId, slaveDeckId) ==
    IF \/ masterDeckId \notin DOMAIN h.decks
       \/ slaveDeckId \notin DOMAIN h.decks
    THEN TRUE
    ELSE h.decks[masterDeckId].bpm = 0 \/ h.decks[slaveDeckId].bpm = 0

syncDecks(h, masterDeckId, slaveDeckId) ==
    IF MissingBPM(h, masterDeckId, slaveDeckId)
    THEN [h EXCEPT !.ret = [success |-> FALSE, reason |-> "missing_bpm"]]
    ELSE
        LET masterDeck == h.decks[masterDeckId]
            slaveDeck == h.decks[slaveDeckId]
            adjustedRate == AdjustedRate(slaveDeck.playbackRate,
                                         masterDeck.bpm, slaveDeck.bpm)
            h1 == setPlaybackRate(h, slaveDeckId, adjustedRate)
        IN  [h1 EXCEPT
                !.syncState = [masterDeck |-> masterDeckId,
                               syncEnabled |-> TRUE,
                               bpmOffset |-> masterDeck.bpm - slaveDeck.bpm],
                !.emitted = Append(@,
                    [name |-> "onSyncUpdate", master |-> masterDeckId,
                     slave |-> slaveDeckId,
                     masterBPM |-> h1.decks[masterDeckId].bpm,
                     slaveBPM |-> h1.decks[slaveDeckId].bpm,
                     adjustedRate |-> adjustedRate, synced |-> TRUE]),
                !.ret = [success |-> TRUE,
                         masterBPM |-> h1.decks[masterDeckId].bpm,
                         slaveBPM |-> h1.decks[slaveDeckId].bpm,
                         playbackRate |-> adjustedRate]]

\* ----------------------------------------------------- AudioSync: decks
\* Faulty variant of createDeck: an existing deck is built anew.
createDeckAnew(h, deckId) ==
    [h EXCEPT !.decks = With(@, deckId, NewDeck(deckId)),
              !.ret = [deck |-> deckId]]

createDeck(h, deckId) ==
    IF deckId \in DOMAIN h.decks THEN [h EXCEPT !.ret = [deck |-> deckId]]
    ELSE [h EXCEPT !.decks = @ @@ (deckId :> NewDeck(deckId)),
                   !.ret = [deck |-> deckId]]

\* ---------------------------------------- AudioSync: inputs and cleanup
\* disableInput(): the microphone nodes are disconnected and the stream in
\* this.micStream is stopped.  micSource also stands for micGain and for
\* the 'mic' entry of this.analysers, which are set and cleared with it.
disableInput(i) ==
    [i EXCEPT !.micSource = FALSE,
              !.micStream = FALSE,
              !.live = IF i.micStream THEN @ - 1 ELSE @]

disconnectRemoteAudio(i) ==
    [i EXCEPT !.remoteAudioSource = "null"]

\* for (const [deckId] of this.decks) this.stop(deckId)
RECURSIVE StopEach(_, _)
StopEach(h, ids) ==
    IF ids = {} THEN h
    ELSE LET deckId == CHOOSE d \in ids : TRUE
         IN  StopEach(stop(h, deckId), ids \ {deckId})

\* Faulty variant of destroy: the decks are dropped as they are.
destroyWithoutStop(h) ==
    [h EXCEPT !.decks = <<>>, !.ret = Undefined]

\* destroy(), the part on the decks: every deck is stopped and the map is
\* cleared.  The deck objects are then out of the instance's reach, each
\* with isPlaying false; the nodes that still owe an 'ended' event hold
\* such a deck in their handler, written here as the deck "".
destroy(h) ==
    LET h1 == StopEach(h, DOMAIN h.decks)
    IN  [h1 EXCEPT !.decks = <<>>,
                   !.sources = [s \in DOMAIN @ |-> [@[s] EXCEPT !.deck = ""]],
                   !.ret = Undefined]

\* ------------------------------------------------------------------ steps
\* A call returns: the instance's fields and the record of the call.
Returned(h, op, deckId, arg) ==
    /\ decks' = h.decks
    /\ sources' = Collect(h.sources, h.decks)
    /\ syncState' = h.syncState
    /\ started' = h.started
    /\ last' = Step(op, deckId, arg, h.ret, h.emitted)

\* A call before initialize() that dereferences this.audioContext (null).
Threw(op, deckId, arg, emitted) ==
    /\ last' = Step(op, deckId, arg, Thrown("TypeError"), emitted)
    /\ UNCHANGED hubVars

\* play creates a buffer source node: one must be free.
SourceAvailable == DOMAIN sources # 1..MaxSources

Initialize ==
    /\ audioContext = "null"
    /\ audioContext' = "running"
    /\ last' = Step("initialize", "", NoArgs, Bool(TRUE),
                     <<[name |-> "onAudioReady"]>>)
    /\ UNCHANGED <<inputs, clock, loads, hubVars, analogVars>>

CallCreateDeck(d) ==
    /\ IF audioContext = "null"
       THEN Threw("createDeck", d, NoArgs, <<>>)
       ELSE Returned(createDeck(Hub, d), "createDeck", d, NoArgs)
    /\ UNCHANGED <<inputs, audioContext, clock, loads, analogVars>>

CallPlay(d, args) ==
    /\ SourceAvailable
    /\ Returned(play(Hub, d, args, clock), "play", d, [offset |-> args])
    /\ UNCHANGED <<inputs, audioContext, clock, loads, analogVars>>

CallPause(d) ==
    /\ Returned(pause(Hub, d, clock), "pause", d, NoArgs)
    /\ UNCHANGED <<inputs, audioContext, clock, loads, analogVars>>

CallStop(d) ==
    /\ Returned(stop(Hub, d), "stop", d, NoArgs)
    /\ UNCHANGED <<inputs, audioContext, clock, loads, analogVars>>

CallSeek(d, time) ==
    /\ SourceAvailable
    /\ Returned(seek(Hub, d, time, clock), "seek", d, [time |-> time])
    /\ UNCHANGED <<inputs, audioContext, clock, loads, analogVars>>

CallSetVolume(d, volume) ==
    /\ Returned(setVolume(Hub, d, volume), "setVolume", d,
                [volume |-> volume])
    /\ UNCHANGED <<inputs, audioContext, clock, loads, analogVars>>

CallSetEQ(d, band, gain) ==
    /\ Returned(setEQ(Hub, d, band, gain), "setEQ", d,
                [band |-> band, gain |-> gain])
    /\ UNCHANGED <<inputs, audioContext, clock, loads, analogVars>>

CallSetPlaybackRate(d, rate) ==
    /\ Returned(setPlaybackRate(Hub, d, rate), "setPlaybackRate", d,
                [rate |-> rate])
    /\ UNCHANGED <<inputs, audioContext, clock, loads, analogVars>>

\* The rate the call would compute stays within the explored numbers.
RateExplored(m, s) ==
    IF MissingBPM(Hub, m, s) THEN TRUE
    ELSE LET r == AdjustedRate(decks[s].playbackRate, decks[m].bpm,
                               decks[s].bpm)
         IN  r[1] <= MaxRateTerm /\ r[2] <= MaxRateTerm

CallSyncDecks(m, s) ==
    /\ RateExplored(m, s)
    /\ Returned(syncDecks(Hub, m, s), "syncDecks", s, [master |-> m])
    /\ UNCHANGED <<inputs, audioContext, clock, loads, analogVars>>

\* getUserMedia resolves inside enableInput(): the stream is stored, then
\* the nodes are created, which throws on a null context; the catch calls
\* onError and the call returns false.
EnableInput ==
    /\ inputs.live < MaxMics
    /\ inputs' = [inputs EXCEPT !.micStream = TRUE,
                                !.live = @ + 1,
                                !.micSource = IF audioContext = "null"
                                              THEN @ ELSE TRUE]
    /\ last' = IF audioContext = "null"
               THEN Step("enableInput", "", NoArgs, Bool(FALSE),
                         <<[name |-> "onError"]>>)
               ELSE Step("enableInput", "", NoArgs, Bool(TRUE), <<>>)
    /\ UNCHANGED <<audioContext, clock, loads, hubVars, analogVars>>

DisableInput ==
    /\ inputs' = disableInput(inputs)
    /\ last' = Step("disableInput", "", NoArgs, Undefined, <<>>)
    /\ UNCHANGED <<audioContext, clock, loads, hubVars, analogVars>>

\* connectRemoteAudio(stream): the previous source is disconnected, then the
\* new one is created, which throws on a null context; the catch calls
\* onError.
ConnectRemoteAudio ==
    /\ inputs' = [inputs EXCEPT !.remoteAudioSource =
                      IF audioContext # "null" THEN "connected"
                      ELSE IF @ = "null" THEN "null" ELSE "disconnected"]
    /\ last' = Step("connectRemoteAudio", "", NoArgs, Undefined,
                     IF audioContext = "null"
                     THEN <<[name |-> "onError"]>> ELSE <<>>)
    /\ UNCHANGED <<audioContext, clock, loads, hubVars, analogVars>>

DisconnectRemoteAudio ==
    /\ inputs' = disconnectRemoteAudio(inputs)
    /\ last' = Step("disconnectRemoteAudio", "", NoArgs, Undefined, <<>>)
    /\ UNCHANGED <<audioContext, clock, loads, hubVars, analogVars>>

\* AudioSync.destroy(), called while no loadAudioFile call is suspended.
Destroy ==
    /\ loads = <<>>
    /\ Returned(destroy(Hub), "destroy", "", NoArgs)
    /\ inputs' = disconnectRemoteAudio(disableInput(inputs))
    /\ audioContext' = "null"
    /\ UNCHANGED <<clock, loads, analogVars>>

\* detectBPM reads no field of the instance: its calls are explored on the
\* newly constructed instance only.  At the rate at which the filter halves
\* each step the buffers are half as long, which keeps the terms small.
BufferInputs ==
    {Buffer(1, data, sampleRate) :
        data \in UNION {[1..n -> SampleInputs] : n \in 0..MaxSamples},
        sampleRate \in SampleRateInputs}
    \cup {Buffer(1, data, FilterRateInput) :
            data \in UNION {[1..n -> SampleInputs] :
                                n \in 0..(MaxSamples \div 2)}}
    \cup {Buffer(0, <<>>, sampleRate) : sampleRate \in SampleRateInputs}

CallDetectBPM ==
    /\ last.op = "new"
    /\ \E buffer \in BufferInputs :
            last' = Step("detectBPM", "", [buffer |-> buffer],
                         [number |-> detectBPM(buffer)], <<>>)
    /\ UNCHANGED <<inputs, audioContext, clock, loads, hubVars, analogVars>>

\* ------------------------------------------------- AudioSync: loading
\* A loadAudioFile call in flight is suspended at one of its awaits: "read"
\* (file.arrayBuffer()), "decode" (decodeAudioData) or "estimate"
\* (detectBPM, whose promise is already resolved: the continuation is a job
\* in the microtask queue, at the place `order`; `behind` is history, the
\* number of jobs it was queued behind).
FreeSlot(limit) == CHOOSE i \in 1..limit \ DOMAIN loads :
                       \A j \in 1..limit \ DOMAIN loads : i <= j

\* loadAudioFile up to its first await that can fail: the deck is fetched or
\* created, then the call is suspended on file.arrayBuffer().  Before
\* initialize() the read of audioContext.state throws inside the try block:
\* onError, and the promise rejects.  At most `limit` calls are in flight.
LoadCall(d, file, limit) ==
    /\ DOMAIN loads # 1..limit
    /\ IF audioContext = "null"
       THEN /\ Threw("loadAudioFile", d, [file |-> file],
                       <<[name |-> "onError"]>>)
            /\ UNCHANGED loads
       ELSE /\ Returned(createDeck(Hub, d), "loadAudioFile", d,
                        [file |-> file])
            /\ loads' = loads @@ (FreeSlot(limit) :>
                            [deck |-> d, file |-> file, stage |-> "read",
                             order |-> 0, behind |-> 0])
    /\ UNCHANGED <<inputs, audioContext, clock, analogVars>>

LoadStart(d, file) == LoadCall(d, file, MaxLoads)

\* Faulty variant of NotifyBPM: the callback is called twice.
NotifyBPMTwice(deckId, bpm, audioBuffer) ==
    <<[name |-> "onBPMDetected", deckId |-> deckId, bpm |-> bpm,
       buffer |-> audioBuffer],
      [name |-> "onBPMDetected", deckId |-> deckId, bpm |-> bpm,
       buffer |-> audioBuffer]>>

\* if (this.onBPMDetected) this.onBPMDetected(deckId, bpm, audioBuffer),
\* with the callback set.
NotifyBPM(deckId, bpm, audioBuffer) ==
    <<[name |-> "onBPMDetected", deckId |-> deckId, bpm |-> bpm,
       buffer |-> audioBuffer]>>

\* file.arrayBuffer() and decodeAudioData resolved with no other step of the
\* program in between: the buffer and its duration are stored, the tempo is
\* estimated and stored, onBPMDetected is called.  detectBPM's promise is
\* already resolved when it is awaited, so the two stores run in one
\* microtask checkpoint.
LoadDecoded(slot) ==
    /\ slot \in DOMAIN loads
    /\ loads[slot].stage = "read"
    /\ loads[slot].file \in Files
    /\ LET d == loads[slot].deck
           file == loads[slot].file
           bpm == FileBPM(file)
           h == [Hub EXCEPT !.decks[d].buffer = file,
                            !.decks[d].duration = FileDuration(file),
                            !.decks[d].bpm = bpm,
                            !.emitted = NotifyBPM(d, bpm, file),
                            !.ret = [buffer |-> file,
                                     duration |-> FileDuration(file),
                                     bpm |-> bpm]]
       IN  Returned(h, "loadAudioFile:resolved", d, [file |-> file])
    /\ loads' = [s \in DOMAIN loads \ {slot} |-> loads[s]]
    /\ UNCHANGED <<inputs, audioContext, clock, analogVars>>

\* Faulty variant of LoadFailed: the failed load empties the deck.
LoadFailedEmptying(slot) ==
    /\ slot \in DOMAIN loads
    /\ loads[slot].stage \in {"read", "decode"}
    /\ loads[slot].file = BadFile
    /\ LET d == loads[slot].deck
           h == [Hub EXCEPT !.decks[d].buffer = NoBuffer,
                            !.decks[d].duration = 0,
                            !.decks[d].bpm = 0,
                            !.emitted = <<[name |-> "onError"]>>,
                            !.ret = Thrown("EncodingError")]
       IN  Returned(h, "loadAudioFile:rejected", d,
                    [file |-> loads[slot].file])
    /\ loads' = [s \in DOMAIN loads \ {slot} |-> loads[s]]
    /\ UNCHANGED <<inputs, audioContext, clock, analogVars>>

\* decodeAudioData rejected: onError, and the error is thrown again.
LoadFailed(slot) ==
    /\ slot \in DOMAIN loads
    /\ loads[slot].stage \in {"read", "decode"}
    /\ loads[slot].file = BadFile
    /\ LET h == [Hub EXCEPT !.emitted = <<[name |-> "onError"]>>,
                            !.ret = Thrown("EncodingError")]
       IN  Returned(h, "loadAudioFile:rejected", loads[slot].deck,
                    [file |-> loads[slot].file])
    /\ loads' = [s \in DOMAIN loads \ {slot} |-> loads[s]]
    /\ UNCHANGED <<inputs, audioContext, clock, analogVars>>

\* The same call, one await at a time.  file.arrayBuffer() resolved: the
\* call goes on to decodeAudioData and is suspended there.
FileRead(slot) ==
    /\ slot \in DOMAIN loads
    /\ loads[slot].stage = "read"
    /\ loads' = [loads EXCEPT ![slot].stage = "decode"]
    /\ last' = Step("loadAudioFile:read", loads[slot].deck,
                     [file |-> loads[slot].file], Undefined, <<>>)
    /\ UNCHANGED <<inputs, audioContext, clock, hubVars, analogVars>>

\* The jobs that wait in the microtask queue: the loads at "estimate".
Queued == {s \in DOMAIN loads : loads[s].stage = "estimate"}

\* Faulty variant of IsNextJob: the queued jobs run in any order.
IsAnyJob(slot) == slot \in Queued
\* The microtask queue is first in, first out.
IsNextJob(slot) ==
    /\ slot \in Queued
    /\ \A s \in Queued : loads[slot].order <= loads[s].order

\* decodeAudioData resolved: the buffer and its duration are stored,
\* detectBPM runs and the call is suspended on its promise, behind the jobs
\* already queued.
DecodeResolved(slot) ==
    /\ slot \in DOMAIN loads
    /\ loads[slot].stage = "decode"
    /\ loads[slot].file \in Files
    /\ LET d == loads[slot].deck
           file == loads[slot].file
           h == [Hub EXCEPT !.decks[d].buffer = file,
                            !.decks[d].duration = FileDuration(file)]
       IN  Returned(h, "loadAudioFile:decoded", d, [file |-> file])
    /\ loads' = [loads EXCEPT ![slot].stage = "estimate",
                              ![slot].order = Cardinality(Queued) + 1,
                              ![slot].behind = Cardinality(Queued)]
    /\ UNCHANGED <<inputs, audioContext, clock, analogVars>>

\* The job of a suspended call runs: the tempo is stored, onBPMDetected is
\* called and the promise of loadAudioFile resolves.  The jobs behind it
\* move up.
EstimateResumed(slot) ==
    /\ IsNextJob(slot)
    /\ LET d == loads[slot].deck
           file == loads[slot].file
           bpm == FileBPM(file)
           h == [Hub EXCEPT !.decks[d].bpm = bpm,
                            !.emitted = NotifyBPM(d, bpm, file),
                            !.ret = [buffer |-> file,
                                     duration |-> FileDuration(file),
                                     bpm |-> bpm]]
       IN  Returned(h, "loadAudioFile:resolved", d,
                    [file |-> file, behind |-> loads[slot].behind])
    /\ loads' = [s \in DOMAIN loads \ {slot} |->
                    IF loads[s].stage = "estimate"
                       /\ loads[s].order > loads[slot].order
                    THEN [loads[s] EXCEPT !.order = @ - 1]
                    ELSE loads[s]]
    /\ UNCHANGED <<inputs, audioContext, clock, analogVars>>

\* ------------------------------------------------------ the environment
\* audioContext.currentTime advances.
Tick ==
    /\ audioContext = "running"
    /\ clock < MaxClock
    /\ clock' = clock + 1
    /\ last' = Step("tick", "", NoArgs, Undefined, <<>>)
    /\ UNCHANGED <<inputs, audioContext, loads, hubVars, analogVars>>

\* A playing node reaches the end of its buffer: it stops and its 'ended'
\* event is queued.
BufferEnds(s) ==
    /\ s \in DOMAIN sources
    /\ sources[s].playing
    /\ clock >= sources[s].mayEndAt
    /\ sources' = Collect([sources EXCEPT ![s].playing = FALSE,
                                          ![s].pendingEnded = TRUE], decks)
    /\ last' = Step("bufferEnds", sources[s].deck, NoArgs, Undefined, <<>>)
    /\ UNCHANGED <<inputs, audioContext, clock, decks, loads, syncState,
                   started,
                   analogVars>>

\* Faulty variant of onended: the stored position is not reset.
onendedKeepingPosition(h, deckId) ==
    IF h.decks[deckId].isPlaying
    THEN [h EXCEPT !.decks[deckId].isPlaying = FALSE,
                   !.started = Without(@, deckId),
                   !.ret = Undefined]
    ELSE [h EXCEPT !.ret = Undefined]

\* source.onended, as play() installs it: the closure holds the deck.
onended(h, deckId) ==
    IF deckId \notin DOMAIN h.decks THEN [h EXCEPT !.ret = Undefined]
    ELSE IF h.decks[deckId].isPlaying
    THEN [h EXCEPT !.decks[deckId].isPlaying = FALSE,
                   !.decks[deckId].currentTime = 0,
                   !.started = Without(@, deckId),
                   !.ret = Undefined]
    ELSE [h EXCEPT !.ret = Undefined]

\* The queued 'ended' event of node s is delivered.
Ended(s) ==
    /\ s \in DOMAIN sources
    /\ sources[s].pendingEnded
    /\ LET h == [Hub EXCEPT !.sources[s].pendingEnded = FALSE]
       IN  Returned(onended(h, sources[s].deck), "ended", sources[s].deck,
                    NoArgs)
    /\ UNCHANGED <<inputs, audioContext, clock, loads, analogVars>>

\* ------------------------------------------------------------ AnalogDeck
\* The AnalogDeck instance with the AudioSync instance it holds and the
\* objects it has created, as the methods below read and write them.
World ==
    [hub |-> Hub, analog |-> analog, streams |-> streams,
     detectors |-> detectors, monitors |-> monitors]

\* triggerError(message): the onInputError callback.
triggerError(w, message) ==
    [w EXCEPT !.hub.emitted = Append(@, [name |-> "onInputError",
                                         message |-> message])]

\* new TimecodeDetector(analyser, type): start() sets isRunning and enters
\* the polling loop.  The detector's onDetected closure holds deckId.
FreshDetector(dets) ==
    CHOOSE i \in 1..MaxDetectors \ DOMAIN dets :
        \A j \in 1..MaxDetectors \ DOMAIN dets : i <= j

enableDVS(w, deckId, timecodeType) ==
    LET w1 == [w EXCEPT !.analog.timecodeType = timecodeType]
    IN  IF deckId \notin w1.analog.audioInputs
        THEN [triggerError(w1, "No audio input connected for DVS")
                  EXCEPT !.hub.ret = Bool(FALSE)]
        ELSE
            LET id == FreshDetector(w1.detectors)
            IN  [w1 EXCEPT
                    !.detectors = @ @@ (id :> [deck |-> deckId,
                                               type |-> timecodeType]),
                    !.analog.timecodeDetectors = With(@, deckId, id),
                    !.analog.dvsEnabled = With(@, deckId, TRUE),
                    !.hub.ret = Bool(TRUE)]

\* detector.stop() clears isRunning: the loop ends at its next frame without
\* another sample.
disableDVS(w, deckId) ==
    LET w1 == IF deckId \in DOMAIN w.analog.timecodeDetectors
              THEN [w EXCEPT
                      !.detectors =
                          Without(@, w.analog.timecodeDetectors[deckId]),
                      !.analog.timecodeDetectors = Without(@, deckId)]
              ELSE w
    IN  [w1 EXCEPT !.analog.dvsEnabled = With(@, deckId, FALSE),
                   !.hub.ret = Undefined]

FreshStream(strs) ==
    CHOOSE i \in 1..MaxStreams \ strs :
        \A j \in 1..MaxStreams \ strs : i <= j

\* connectAudioInterface from the point where getUserMedia has resolved.
\* audioInputs also stands for inputGains and inputAnalysers: the three maps
\* are filled and emptied together.
connectAudioInterface(w, deckId, dvsEnabled, context) ==
    LET stream == FreshStream(w.streams)
        w1 == [w EXCEPT !.streams = @ \cup {stream},
                        !.analog.inputStreams = With(@, deckId, stream)]
    IN  IF context = "null"
        THEN [triggerError(w1, "Failed to connect audio interface")
                  EXCEPT !.hub.ret = Thrown("TypeError")]
        ELSE
            LET w2 == [w1 EXCEPT
                         !.analog.audioInputs = @ \cup {deckId},
                         !.hub = IF deckId \in DOMAIN w1.hub.decks THEN @
                                 ELSE createDeck(@, deckId)]
                w3 == IF dvsEnabled THEN enableDVS(w2, deckId, "serato")
                      ELSE w2
            IN  [w3 EXCEPT
                    !.hub.emitted = Append(@, [name |-> "onInputReady",
                                               deckId |-> deckId]),
                    !.monitors = With(@, deckId,
                                      IF deckId \in DOMAIN @
                                      THEN @[deckId] + 1 ELSE 1),
                    !.hub.ret = [deckId |-> deckId]]

disconnectAudioInterface(w, deckId) ==
    LET w1 == IF deckId \in DOMAIN w.analog.inputStreams
              THEN [w EXCEPT
                      !.streams = @ \ {w.analog.inputStreams[deckId]},
                      !.analog.inputStreams = Without(@, deckId)]
              ELSE w
        w2 == [w1 EXCEPT !.analog.audioInputs = @ \ {deckId}]
    IN  disableDVS(w2, deckId)

\* this.audioInputs.forEach((_, deckId) => disconnectAudioInterface(deckId)):
\* a key the call deletes on the way is not visited again.
RECURSIVE DisconnectEach(_, _)
DisconnectEach(w, ids) ==
    IF ids = {} THEN w
    ELSE LET deckId == CHOOSE d \in ids : TRUE
         IN  DisconnectEach(disconnectAudioInterface(w, deckId),
                            ids \ {deckId})

\* this.dvsEnabled.forEach((_, deckId) => disableDVS(deckId))
RECURSIVE DisableEach(_, _)
DisableEach(w, ids) ==
    IF ids = {} THEN w
    ELSE LET deckId == CHOOSE d \in ids : TRUE
         IN  DisableEach(disableDVS(w, deckId), ids \ {deckId})

\* AnalogDeck.destroy(): disconnects the inputs registered in audioInputs,
\* disables DVS for every key of dvsEnabled, detaches the MIDI handlers.
destroyAnalogDeck(w) ==
    LET w1 == DisconnectEach(w, w.analog.audioInputs)
        w2 == DisableEach(w1, DOMAIN w1.analog.dvsEnabled)
    IN  [w2 EXCEPT !.analog.midiListening = FALSE,
                   !.hub.ret = Undefined]

\* applyDVSControl(deckId, timecodeData)
applyDVSControl(h, deckId, speed, direction) ==
    IF deckId \notin DOMAIN h.decks THEN h
    ELSE IF h.decks[deckId].source = NoSource THEN h
    ELSE
        LET deck == h.decks[deckId]
            playbackRate == RMul(speed, IF direction = "forward"
                                        THEN <<1, 1>> ELSE <<-1, 1>>)
            h1 == setPlaybackRate(h, deckId, MathAbs(playbackRate))
        IN  IF direction = "backward" /\ deck.isPlaying
            THEN setPlaybackRate(h1, deckId, <<1, 10>>)
            ELSE h1

\* detector.onDetected, as enableDVS installs it.
onDetected(h, deckId, speed, direction) ==
    applyDVSControl(
        [h EXCEPT !.emitted = Append(@, [name |-> "onTimecodeDetected",
                                         deckId |-> deckId, speed |-> speed,
                                         direction |-> direction])],
        deckId, speed, direction)

\* ------------------------------------------------------ AnalogDeck: MIDI
\* Faulty variant of getMIDICommand: the table starts one entry early, so a
\* note-off is named 'noteon'.
getMIDICommandShifted(command) ==
    CASE command = 7 -> "noteoff"
      [] command = 8 -> "noteon"
      [] command = 9 -> "aftertouch"
      [] command = 10 -> "controlchange"
      [] command = 11 -> "programchange"
      [] command = 12 -> "channelaftertouch"
      [] command = 13 -> "pitchbend"
      [] OTHER -> "unknown"

getMIDICommand(command) ==
    CASE command = 8 -> "noteoff"
      [] command = 9 -> "noteon"
      [] command = 10 -> "aftertouch"
      [] command = 11 -> "controlchange"
      [] command = 12 -> "programchange"
      [] command = 13 -> "channelaftertouch"
      [] command = 14 -> "pitchbend"
      [] OTHER -> "unknown"

\* The key `${inputId}-${note}`: an input id and a note number.
MappingKey(inputId, note) == <<inputId, note>>

\* Faulty variant of addMIDIMapping: a key that is taken keeps its mapping.
addMIDIMappingFirstWins(a, mapping) ==
    IF MappingKey(mapping.inputId, mapping.note) \in DOMAIN a.midiMappings
    THEN a
    ELSE [a EXCEPT !.midiMappings =
             @ @@ (MappingKey(mapping.inputId, mapping.note) :> mapping)]

addMIDIMapping(a, mapping) ==
    [a EXCEPT !.midiMappings =
        With(@, MappingKey(mapping.inputId, mapping.note), mapping)]

removeMIDIMapping(a, inputId, note) ==
    [a EXCEPT !.midiMappings = Without(@, MappingKey(inputId, note))]

\* Faulty variant of EQGain: the value is not centred, gain = value * 24.
EQGainUncentred(value) == RMul(value, <<24, 1>>)

\* The presets of getControllerMappings.  An entry has no inputId, and the
\* crossfader entry no deckId: the key addMIDIMapping builds for it starts
\* with the text 'undefined'.
getControllerMappings(controllerType) ==
    LET Preset(note, action, deckId, parameter) ==
            [inputId |-> "undefined", note |-> note, action |-> action,
             deckId |-> deckId, parameter |-> parameter]
        pioneerDDJ ==
            <<Preset(11, "play", "a", "undefined"),
              Preset(43, "play", "b", "undefined"),
              Preset(13, "volume", "a", "undefined"),
              Preset(45, "volume", "b", "undefined"),
              Preset(16, "eq", "a", "high"),
              Preset(17, "eq", "a", "mid"),
              Preset(18, "eq", "a", "low"),
              Preset(48, "eq", "b", "high"),
              Preset(49, "eq", "b", "mid"),
              Preset(50, "eq", "b", "low"),
              Preset(8, "crossfader", "undefined", "undefined")>>
    IN  CASE controllerType = "pioneer-ddj" -> pioneerDDJ
          [] controllerType = "pioneer-ddj-400" -> pioneerDDJ
          [] controllerType = "numark-mixtrack" -> <<>>
          [] controllerType = "traktor-s2" -> <<>>
          [] controllerType = "generic" -> <<>>
          [] OTHER -> <<>>

\* mappings.forEach(mapping => this.addMIDIMapping(mapping))
RECURSIVE AddEach(_, _)
AddEach(a, mappings) ==
    IF mappings = <<>> THEN a
    ELSE AddEach(addMIDIMapping(a, Head(mappings)), Tail(mappings))

loadControllerMapping(a, controllerType) ==
    AddEach(a, getControllerMappings(controllerType))

\* gain = (midiEvent.value - 0.5) * 24
EQGain(value) == RMul(RSub(value, <<1, 2>>), <<24, 1>>)
\* Faulty variant of PitchValue: the factor 2 is left out, so the fader
\* spans 8% each way.
PitchValueHalfRange(value) ==
    RAdd(<<1, 1>>, RMul(RSub(value, <<1, 2>>), <<4, 25>>))

\* pitchValue = 1 + ((midiEvent.value - 0.5) * 2 * pitchRange), range 0.16
PitchValue(value) ==
    RAdd(<<1, 1>>, RMul(RMul(RSub(value, <<1, 2>>), <<2, 1>>), <<4, 25>>))

\* Faulty variant of applyMIDIMapping: the switch has no case for
\* crossfader, cue and hotcue, which fall to the default branch.
applyMIDIMappingFewerCases(h, mappings, midiEvent, now) ==
    LET key == MappingKey(midiEvent.inputId, midiEvent.note)
    IN  IF key \notin DOMAIN mappings THEN h
        ELSE
            LET mapping == mappings[key]
                action == mapping.action
                deckId == mapping.deckId
            IN  CASE action = "play" ->
                        IF midiEvent.command = "noteon"
                        THEN play(h, deckId, <<>>, now) ELSE h
                  [] action = "pause" ->
                        IF midiEvent.command = "noteon"
                        THEN pause(h, deckId, now) ELSE h
                  [] action = "volume" ->
                        setVolume(h, deckId, midiEvent.value)
                  [] action = "eq" ->
                        setEQ(h, deckId, mapping.parameter,
                              EQGain(midiEvent.value))
                  [] action = "pitch" ->
                        setPlaybackRate(h, deckId,
                                        PitchValue(midiEvent.value))
                  [] OTHER ->
                        [h EXCEPT !.emitted =
                            Append(@, [name |-> "log",
                                       message |-> "Unknown MIDI action"])]

applyMIDIMapping(h, mappings, midiEvent, now) ==
    LET key == MappingKey(midiEvent.inputId, midiEvent.note)
    IN  IF key \notin DOMAIN mappings THEN h
        ELSE
            LET mapping == mappings[key]
                action == mapping.action
                deckId == mapping.deckId
            IN  CASE action = "play" ->
                        IF midiEvent.command = "noteon"
                        THEN play(h, deckId, <<>>, now) ELSE h
                  [] action = "pause" ->
                        IF midiEvent.command = "noteon"
                        THEN pause(h, deckId, now) ELSE h
                  [] action = "volume" ->
                        setVolume(h, deckId, midiEvent.value)
                  [] action = "crossfader" -> h
                  [] action = "eq" ->
                        setEQ(h, deckId, mapping.parameter,
                              EQGain(midiEvent.value))
                  [] action = "pitch" ->
                        setPlaybackRate(h, deckId,
                                        PitchValue(midiEvent.value))
                  [] action = "cue" -> h
                  [] action = "hotcue" -> h
                  [] OTHER ->
                        [h EXCEPT !.emitted =
                            Append(@, [name |-> "log",
                                       message |-> "Unknown MIDI action"])]

\* Faulty variant of handleMIDIMessage: the lookup result is used without
\* the `if (!mapping) return` test, so an unmapped message throws.
handleMIDIMessageUnchecked(h, mappings, inputId, status, data1, data2, now) ==
    IF MappingKey(inputId, data1) \notin DOMAIN mappings
    THEN [h EXCEPT !.ret = Thrown("TypeError")]
    ELSE [applyMIDIMapping(h, mappings,
                           [inputId |-> inputId,
                            command |-> getMIDICommand(status \div 16),
                            channel |-> status % 16, note |-> data1,
                            velocity |-> data2, value |-> Rat(data2, 127)],
                           now)
            EXCEPT !.ret = Undefined]

\* Faulty variant of handleMIDIMessage: the callback runs before the
\* mapping is applied.
handleMIDIMessageEarly(h, mappings, inputId, status, data1, data2, now) ==
    LET midiEvent == [inputId |-> inputId,
                      command |-> getMIDICommand(status \div 16),
                      channel |-> status % 16,
                      note |-> data1,
                      velocity |-> data2,
                      value |-> Rat(data2, 127)]
        h1 == [h EXCEPT !.emitted = Append(@, [name |-> "onMIDIMessage",
                                               event |-> midiEvent,
                                               decks |-> h.decks])]
    IN  [applyMIDIMapping(h1, mappings, midiEvent, now)
            EXCEPT !.ret = Undefined]

\* The record of the onMIDIMessage call keeps, next to the event, the decks
\* as the handler finds them when it runs.
handleMIDIMessage(h, mappings, inputId, status, data1, data2, now) ==
    LET midiEvent == [inputId |-> inputId,
                      command |-> getMIDICommand(status \div 16),
                      channel |-> status % 16,
                      note |-> data1,
                      velocity |-> data2,
                      value |-> Rat(data2, 127)]
        h1 == applyMIDIMapping(h, mappings, midiEvent, now)
    IN  [h1 EXCEPT !.emitted = Append(@, [name |-> "onMIDIMessage",
                                          event |-> midiEvent,
                                          decks |-> h1.decks]),
                   !.ret = Undefined]

\* ------------------------------------------------------ AnalogDeck: steps
\* An AnalogDeck call returns.
ReturnedW(w, op, deckId, arg) ==
    /\ Returned(w.hub, op, deckId, arg)
    /\ analog' = w.analog
    /\ streams' = w.streams
    /\ detectors' = w.detectors
    /\ monitors' = w.monitors

\* getUserMedia resolves inside connectAudioInterface(d, {dvsEnabled}),
\* with fewer than `limit` level loops started for the deck so far.
ConnectCall(d, dvs, limit) ==
    /\ streams # 1..MaxStreams
    /\ dvs => DOMAIN detectors # 1..MaxDetectors
    /\ d \in DOMAIN monitors => monitors[d] < limit
    /\ ReturnedW(connectAudioInterface(World, d, dvs, audioContext),
                 "connectAudioInterface", d, [dvsEnabled |-> dvs])
    /\ UNCHANGED <<inputs, audioContext, clock, loads>>

ConnectAudioInterface(d, dvs) == ConnectCall(d, dvs, MaxMonitors)

\* A frame of a level-monitoring loop of deck d: the closure `monitor` reads
\* the analyser, calls onLevelUpdate and requests the next frame.
LevelPolled(d) ==
    /\ d \in DOMAIN monitors
    /\ monitors[d] > 0
    /\ last' = Step("levelMonitor", d, NoArgs, Undefined,
                     <<[name |-> "onLevelUpdate", deckId |-> d]>>)
    /\ UNCHANGED <<inputs, audioContext, clock, loads, hubVars, analogVars>>

DestroyAnalogDeck ==
    /\ ReturnedW(destroyAnalogDeck(World), "AnalogDeck.destroy", "", NoArgs)
    /\ UNCHANGED <<inputs, audioContext, clock, loads>>

DisconnectAudioInterface(d) ==
    /\ ReturnedW(disconnectAudioInterface(World, d),
                 "disconnectAudioInterface", d, NoArgs)
    /\ UNCHANGED <<inputs, audioContext, clock, loads>>

EnableDVS(d, type) ==
    /\ DOMAIN detectors # 1..MaxDetectors
    /\ ReturnedW(enableDVS(World, d, type), "enableDVS", d,
                 [timecodeType |-> type])
    /\ UNCHANGED <<inputs, audioContext, clock, loads>>

DisableDVS(d) ==
    /\ ReturnedW(disableDVS(World, d), "disableDVS", d, NoArgs)
    /\ UNCHANGED <<inputs, audioContext, clock, loads>>

\* A polling cycle of detector `id` finds the level above the floor and
\* produces a sample.
TimecodeDetected(id, speed, direction) ==
    /\ id \in DOMAIN detectors
    /\ Returned(onDetected(Hub, detectors[id].deck, speed, direction),
                "timecode", detectors[id].deck,
                [speed |-> speed, direction |-> direction])
    /\ UNCHANGED <<inputs, audioContext, clock, loads, analogVars>>

AddMIDIMapping(mapping) ==
    /\ analog' = addMIDIMapping(analog, mapping)
    /\ last' = Step("addMIDIMapping", mapping.deckId, [mapping |-> mapping],
                     Undefined, <<>>)
    /\ UNCHANGED <<inputs, audioContext, clock, loads, hubVars, streams,
                   detectors, monitors>>

RemoveMIDIMapping(inputId, note) ==
    /\ analog' = removeMIDIMapping(analog, inputId, note)
    /\ last' = Step("removeMIDIMapping", "",
                     [inputId |-> inputId, note |-> note], Undefined, <<>>)
    /\ UNCHANGED <<inputs, audioContext, clock, loads, hubVars, streams,
                   detectors, monitors>>

LoadControllerMapping(controllerType) ==
    /\ analog' = loadControllerMapping(analog, controllerType)
    /\ last' = Step("loadControllerMapping", "",
                     [controllerType |-> controllerType], Undefined, <<>>)
    /\ UNCHANGED <<inputs, audioContext, clock, loads, hubVars, streams,
                   detectors, monitors>>

\* input.onmidimessage fires with the bytes [status, data1, data2].
HandleMIDIMessage(inputId, status, data1, data2) ==
    /\ analog.midiListening
    /\ SourceAvailable
    /\ Returned(handleMIDIMessage(Hub, analog.midiMappings, inputId, status,
                                  data1, data2, clock),
                "midi", "",
                [inputId |-> inputId, status |-> status, data1 |-> data1,
                 data2 |-> data2])
    /\ UNCHANGED <<inputs, audioContext, clock, loads, analogVars>>

\* ------------------------------------------------------- specification
Init ==
    /\ audioContext = "null"
    /\ clock = 0
    /\ decks = <<>>
    /\ sources = <<>>
    /\ loads = <<>>
    /\ syncState = [masterDeck |-> "null", syncEnabled |-> FALSE,
                    bpmOffset |-> 0]
    /\ started = <<>>
    /\ analog = [inputStreams |-> <<>>, audioInputs |-> {},
                 dvsEnabled |-> <<>>, timecodeDetectors |-> <<>>,
                 timecodeType |-> "serato", midiMappings |-> <<>>,
                 midiListening |-> TRUE]
    /\ streams = {}
    /\ detectors = <<>>
    /\ monitors = <<>>
    /\ inputs = [micStream |-> FALSE, micSource |-> FALSE, live |-> 0,
                 remoteAudioSource |-> "null"]
    /\ last = [op |-> "new", deck |-> "", arg |-> NoArgs, ret |-> Undefined,
               emitted |-> <<>>, was |-> "absent", held |-> FALSE]

\* Transport of one deck against the clock: loading, play, pause, stop,
\* seek, the end of the buffer and the delivery of 'ended' events.
TransportDecks == {"a"}
TransportFiles == {"short128", "long124", BadFile}

NextTransport ==
    \/ Initialize
    \/ \E d \in TransportDecks : CallCreateDeck(d)
    \/ \E d \in TransportDecks, f \in TransportFiles : LoadStart(d, f)
    \/ \E slot \in 1..MaxLoads : LoadDecoded(slot)
    \/ \E slot \in 1..MaxLoads : LoadFailed(slot)
    \/ \E d \in TransportDecks, args \in OffsetInputs : CallPlay(d, args)
    \/ \E d \in TransportDecks : CallPause(d)
    \/ \E d \in TransportDecks : CallStop(d)
    \/ \E d \in TransportDecks, t \in SeekInputs : CallSeek(d, t)
    \/ Tick
    \/ \E s \in 1..MaxSources : BufferEnds(s)
    \/ \E s \in 1..MaxSources : Ended(s)

SpecTransport == Init /\ [][NextTransport]_vars

\* BPM sync of two decks: deck a carries the 128 BPM track, deck b a 124 or
\* a 60 BPM track; either may be absent or created but not loaded; deck b may
\* be playing, and its rate is set before and between syncs.
NextSync ==
    \/ Initialize
    \/ \E d \in DeckIds : CallCreateDeck(d)
    \/ LoadStart("a", "short128")
    \/ \E f \in {"long124", "long60"} : LoadStart("b", f)
    \/ \E slot \in 1..MaxLoads : LoadDecoded(slot)
    \/ CallPlay("b", <<>>)
    \/ \E r \in RateInputs : CallSetPlaybackRate("b", r)
    \/ \E m \in DeckIds, s \in DeckIds : CallSyncDecks(m, s)

SpecSync == Init /\ [][NextSync]_vars

\* Every writer of a playback rate: the setter with arguments below, inside
\* and above the range, BPM sync in both directions, a MIDI pitch mapping and
\* DVS timecode samples on deck b, which may be absent, loaded or playing.
PitchMappings ==
    {[inputId |-> "in1", note |-> 11, action |-> "pitch", deckId |-> "b",
      parameter |-> "undefined"]}

NextRate ==
    \/ Initialize
    \/ LoadStart("a", "short128")
    \/ LoadStart("b", "long124")
    \/ \E slot \in 1..MaxLoads : LoadDecoded(slot)
    \/ CallPlay("b", <<>>)
    \/ \E d \in DeckIds, r \in {<<1, 10>>, <<5, 4>>, <<3, 1>>} :
            CallSetPlaybackRate(d, r)
    \/ \E m \in DeckIds, s \in DeckIds : CallSyncDecks(m, s)
    \/ ConnectAudioInterface("b", TRUE)
    \/ \E id \in 1..MaxDetectors, dir \in DirectionInputs :
            TimecodeDetected(id, <<21, 20>>, dir)
    \/ \E mapping \in PitchMappings : AddMIDIMapping(mapping)
    \/ \E i \in MidiInputIds, v \in {0, 127} : HandleMIDIMessage(i, 144, 11, v)

SpecRate == Init /\ [][NextRate]_vars

\* Everything that could write the sync state: loads of both decks (one
\* file does not decode), the transport of deck b, the setters, BPM sync
\* that fails or succeeds in both directions, a MIDI pitch mapping and DVS
\* timecode samples on deck b.
NextSyncState ==
    \/ Initialize
    \/ LoadStart("a", "short128")
    \/ \E f \in {"long60", BadFile} : LoadStart("b", f)
    \/ \E slot \in 1..MaxLoads : LoadDecoded(slot)
    \/ \E slot \in 1..MaxLoads : LoadFailed(slot)
    \/ CallPlay("b", <<>>)
    \/ CallPause("b")
    \/ CallStop("b")
    \/ CallSeek("b", 1)
    \/ CallSetVolume("b", <<1, 2>>)
    \/ CallSetEQ("b", "mid", <<6, 1>>)
    \/ CallSetPlaybackRate("b", <<5, 4>>)
    \/ \E m \in DeckIds, s \in DeckIds : CallSyncDecks(m, s)
    \/ ConnectAudioInterface("b", TRUE)
    \/ \E id \in 1..MaxDetectors, dir \in DirectionInputs :
            TimecodeDetected(id, <<21, 20>>, dir)
    \/ \E mapping \in PitchMappings : AddMIDIMapping(mapping)
    \/ HandleMIDIMessage("in1", 144, 11, 127)

SpecSyncState == Init /\ [][NextSyncState]_vars

\* Calls that name a deck: deck a may be absent, created, loaded, playing or
\* paused; deck b never exists.
NextTargets ==
    \/ Initialize
    \/ CallCreateDeck("a")
    \/ LoadStart("a", "short128")
    \/ \E slot \in 1..MaxLoads : LoadDecoded(slot)
    \/ \E d \in DeckIds : CallPlay(d, <<>>)
    \/ \E d \in DeckIds : CallPause(d)
    \/ \E d \in DeckIds : CallStop(d)
    \/ \E d \in DeckIds : CallSeek(d, 1)
    \/ \E d \in DeckIds : CallSetVolume(d, <<1, 2>>)
    \/ \E d \in DeckIds : CallSetEQ(d, "mid", <<6, 1>>)
    \/ \E d \in DeckIds : CallSetPlaybackRate(d, <<5, 4>>)
    \/ Tick
    \/ \E s \in 1..MaxSources : Ended(s)

SpecTargets == Init /\ [][NextTargets]_vars

\* The volume and EQ of deck a: the setters with arguments below, inside and
\* above their ranges on every band name, and MIDI controls mapped to the
\* volume and to the low band; deck b never exists.
ParamMappings ==
    {[inputId |-> "in1", note |-> 11, action |-> "eq", deckId |-> "a",
      parameter |-> "low"],
     [inputId |-> "in1", note |-> 13, action |-> "volume", deckId |-> "a",
      parameter |-> "undefined"]}

NextParams ==
    \/ Initialize
    \/ CallCreateDeck("a")
    \/ \E d \in DeckIds, v \in VolumeInputs : CallSetVolume(d, v)
    \/ \E d \in DeckIds, b \in BandInputs, g \in GainInputs :
            CallSetEQ(d, b, g)
    \/ \E mapping \in ParamMappings : AddMIDIMapping(mapping)
    \/ \E n \in NoteInputs, v \in DataInputs :
            HandleMIDIMessage("in1", 176, n, v)

SpecParams == Init /\ [][NextParams]_vars

\* The tempo of deck a against the clock: its rate is set while it is
\* loaded, playing or paused, before and after its node runs out of buffer.
NextTempo ==
    \/ Initialize
    \/ LoadStart("a", "long124")
    \/ \E slot \in 1..MaxLoads : LoadDecoded(slot)
    \/ CallPlay("a", <<>>)
    \/ CallPause("a")
    \/ \E r \in RateInputs : CallSetPlaybackRate("a", r)
    \/ Tick
    \/ \E s \in 1..MaxSources : BufferEnds(s)
    \/ \E s \in 1..MaxSources : Ended(s)

SpecTempo == Init /\ [][NextTempo]_vars

\* Tempo estimation: detectBPM on every buffer of up to MaxSamples samples,
\* and the loads that store its result for a track.
NextBPM ==
    \/ CallDetectBPM
    \/ Initialize
    \/ \E f \in Files : LoadStart("a", f)
    \/ \E slot \in 1..MaxLoads : LoadDecoded(slot)

SpecBPM == Init /\ [][NextBPM]_vars

\* Loads of deck a that overlap: up to MaxPending calls in flight, each
\* suspended at the file read, at the decode and at the estimation, resumed
\* in any order that the microtask queue allows; one file does not decode.
\* The deck may be played in between, and synced: to itself, which succeeds
\* once it has a BPM, or with deck b, which never exists.
NextLoads ==
    \/ Initialize
    \/ \E f \in TransportFiles : LoadCall("a", f, MaxPending)
    \/ \E m \in DeckIds, s \in DeckIds : CallSyncDecks(m, s)
    \/ \E slot \in 1..MaxPending : FileRead(slot)
    \/ \E slot \in 1..MaxPending : DecodeResolved(slot)
    \/ \E slot \in 1..MaxPending : LoadFailed(slot)
    \/ \E slot \in 1..MaxPending : EstimateResumed(slot)
    \/ CallPlay("a", <<>>)

SpecLoads == Init /\ [][NextLoads]_vars

\* The external inputs of the decks: interfaces connected (with and without
\* DVS, also twice for one deck, also before initialize()) and disconnected,
\* DVS enabled and disabled, the frames of the polling loops that are alive,
\* and AnalogDeck.destroy(); deck a may be loaded and playing.
NextInputs ==
    \/ Initialize
    \/ LoadStart("a", "short128")
    \/ \E slot \in 1..MaxLoads : LoadDecoded(slot)
    \/ CallPlay("a", <<>>)
    \/ \E d \in DeckIds, dvs \in BOOLEAN : ConnectCall(d, dvs, MaxLoops)
    \/ \E d \in DeckIds : DisconnectAudioInterface(d)
    \/ \E d \in DeckIds : EnableDVS(d, "serato")
    \/ \E d \in DeckIds : DisableDVS(d)
    \/ \E id \in 1..MaxDetectors, dir \in DirectionInputs :
            TimecodeDetected(id, <<21, 20>>, dir)
    \/ \E d \in DeckIds : LevelPolled(d)
    \/ DestroyAnalogDeck

SpecInputs == Init /\ [][NextInputs]_vars

\* The life of an AudioSync instance: initialize(), decks a and b loaded and
\* played, stopped or paused, deck a made the sync master (of itself, which
\* syncDecks accepts), the microphone and the remote input connected
\* (also twice, also before initialize()) and released, and destroy(), after
\* which the instance may be initialized and used again.
NextCleanup ==
    \/ Initialize
    \/ \E d \in DeckIds : CallCreateDeck(d)
    \/ LoadStart("a", "short128")
    \/ \E slot \in 1..MaxLoads : LoadDecoded(slot)
    \/ CallPlay("a", <<>>)
    \/ CallPause("a")
    \/ CallSyncDecks("a", "a")
    \/ \E s \in 1..MaxSources : Ended(s)
    \/ EnableInput
    \/ DisableInput
    \/ ConnectRemoteAudio
    \/ DisconnectRemoteAudio
    \/ Destroy

SpecCleanup == Init /\ [][NextCleanup]_vars

\* MIDI dispatch on deck a, which may be absent, loaded, playing or paused:
\* mappings for play, pause, volume, pitch and the three EQ bands, installed
\* in the order of their notes, and messages of every command kind (note-off,
\* note-on, control-change, pitch-bend, and a status byte that names no
\* command) on the mapped notes and on note 20, which has no mapping; the
\* data byte is 0 or 127 (127 only on the play, pause, high and mid notes).
NextMIDI ==
    \/ Initialize
    \/ LoadStart("a", "short128")
    \/ \E slot \in 1..MaxLoads : LoadDecoded(slot)
    \/ \E mapping \in
            {m \in
                {[inputId |-> "in1", note |-> 11, action |-> "play",
                  deckId |-> "a", parameter |-> "undefined"],
                 [inputId |-> "in1", note |-> 12, action |-> "pause",
                  deckId |-> "a", parameter |-> "undefined"],
                 [inputId |-> "in1", note |-> 13, action |-> "volume",
                  deckId |-> "a", parameter |-> "undefined"],
                 [inputId |-> "in1", note |-> 14, action |-> "pitch",
                  deckId |-> "a", parameter |-> "undefined"],
                 [inputId |-> "in1", note |-> 16, action |-> "eq",
                  deckId |-> "a", parameter |-> "high"],
                 [inputId |-> "in1", note |-> 17, action |-> "eq",
                  deckId |-> "a", parameter |-> "mid"],
                 [inputId |-> "in1", note |-> 18, action |-> "eq",
                  deckId |-> "a", parameter |-> "low"]} :
                \A n \in {11, 12, 13, 14, 16, 17, 18} :
                    (n < m.note) <=> (MappingKey("in1", n)
                                        \in DOMAIN analog.midiMappings)} :
            AddMIDIMapping(mapping)
    \/ \E st \in StatusInputs \cup {112},
          m \in ({13, 14, 18, 20} \X {0, 127})
                 \cup ({11, 12, 16, 17} \X {127}) :
            HandleMIDIMessage("in1", st, m[1], m[2])

SpecMIDI == Init /\ [][NextMIDI]_vars

\* The mapping table and what dispatch does with it: mappings added by hand
\* on input in1 (two that share note 11, the three actions without an effect
\* and an action the switch does not know), removals, controller presets by
\* name (two known, one known and empty, one unknown), and note-on and
\* control-change messages from in1 on deck a, which may be absent, loaded
\* or playing.
MappingInputs ==
    {[inputId |-> "in1", note |-> 11, action |-> "play", deckId |-> "a",
      parameter |-> "undefined"],
     [inputId |-> "in1", note |-> 11, action |-> "volume", deckId |-> "a",
      parameter |-> "undefined"],
     [inputId |-> "in1", note |-> 21, action |-> "crossfader",
      deckId |-> "undefined", parameter |-> "undefined"],
     [inputId |-> "in1", note |-> 22, action |-> "cue", deckId |-> "a",
      parameter |-> "undefined"],
     [inputId |-> "in1", note |-> 23, action |-> "hotcue", deckId |-> "a",
      parameter |-> "undefined"],
     [inputId |-> "in1", note |-> 24, action |-> "loop", deckId |-> "a",
      parameter |-> "undefined"]}
ControllerTypes ==
    {"pioneer-ddj", "pioneer-ddj-400", "numark-mixtrack", "akai-apc"}

NextMappings ==
    \/ Initialize
    \/ LoadStart("a", "short128")
    \/ \E slot \in 1..MaxLoads : LoadDecoded(slot)
    \/ \E mapping \in MappingInputs : AddMIDIMapping(mapping)
    \/ \E n \in {11, 21} : RemoveMIDIMapping("in1", n)
    \/ \E controllerType \in ControllerTypes :
            LoadControllerMapping(controllerType)
    \/ \E st \in {144, 176}, n \in {11, 21, 22, 23, 24}, v \in {0, 127} :
            HandleMIDIMessage("in1", st, n, v)

SpecMappings == Init /\ [][NextMappings]_vars

\* Calls that name a deck the hub does not hold: deck a can be loaded, deck
\* b never exists; BPM sync between the two in both directions, MIDI
\* messages through mappings that target deck b, and an audio interface
\* connected to deck a or to deck c, which has no deck before the call.
MissingMappings ==
    {[inputId |-> "in1", note |-> 31, action |-> "play", deckId |-> "b",
      parameter |-> "undefined"],
     [inputId |-> "in1", note |-> 32, action |-> "pause", deckId |-> "b",
      parameter |-> "undefined"],
     [inputId |-> "in1", note |-> 33, action |-> "volume", deckId |-> "b",
      parameter |-> "undefined"],
     [inputId |-> "in1", note |-> 34, action |-> "eq", deckId |-> "b",
      parameter |-> "low"],
     [inputId |-> "in1", note |-> 35, action |-> "pitch", deckId |-> "b",
      parameter |-> "undefined"]}

NextMissing ==
    \/ Initialize
    \/ LoadStart("a", "short128")
    \/ \E slot \in 1..MaxLoads : LoadDecoded(slot)
    \/ \E m \in DeckIds, s \in DeckIds : CallSyncDecks(m, s)
    \/ \E mapping \in MissingMappings : AddMIDIMapping(mapping)
    \/ \E n \in 31..35 : HandleMIDIMessage("in1", 144, n, 127)
    \/ \E d \in {"a", "c"}, dvs \in BOOLEAN : ConnectAudioInterface(d, dvs)

SpecMissing == Init /\ [][NextMissing]_vars

\* Timecode control switched on and off for decks a and b, each with or
\* without an audio interface connected, with either timecode type.
NextDVS ==
    \/ Initialize
    \/ \E d \in DeckIds : ConnectAudioInterface(d, FALSE)
    \/ \E d \in DeckIds : DisconnectAudioInterface(d)
    \/ \E d \in DeckIds, type \in TimecodeTypes : EnableDVS(d, type)
    \/ \E d \in DeckIds : DisableDVS(d)

SpecDVS == Init /\ [][NextDVS]_vars

\* Every operation of the two classes.
Next ==
    \/ NextDVS
    \/ NextMissing
    \/ NextMappings
    \/ NextTransport
    \/ NextSync
    \/ NextRate
    \/ NextTargets
    \/ NextParams
    \/ NextTempo
    \/ NextBPM
    \/ NextLoads
    \/ NextSyncState
    \/ NextInputs
    \/ NextCleanup
    \/ NextMIDI
    \/ \E d \in DeckIds, f \in Files \cup {BadFile} : LoadStart(d, f)
    \/ \E d \in DeckIds, args \in OffsetInputs : CallPlay(d, args)
    \/ \E d \in DeckIds, t \in SeekInputs : CallSeek(d, t)
    \/ \E d \in DeckIds, v \in VolumeInputs : CallSetVolume(d, v)
    \/ \E d \in DeckIds, b \in BandInputs, g \in GainInputs :
            CallSetEQ(d, b, g)
    \/ \E d \in DeckIds, dvs \in BOOLEAN : ConnectAudioInterface(d, dvs)
    \/ \E d \in DeckIds : DisconnectAudioInterface(d)
    \/ \E d \in DeckIds, type \in TimecodeTypes : EnableDVS(d, type)
    \/ \E d \in DeckIds : DisableDVS(d)
    \/ \E mapping \in PitchMappings \cup ParamMappings :
            AddMIDIMapping(mapping)
    \/ \E i \in MidiInputIds, n \in NoteInputs : RemoveMIDIMapping(i, n)
    \/ \E i \in MidiInputIds, st \in StatusInputs, n \in NoteInputs,
          v \in DataInputs : HandleMIDIMessage(i, st, n, v)
    \/ \E id \in 1..MaxDetectors, v \in SpeedInputs, dir \in DirectionInputs :
            TimecodeDetected(id, v, dir)

Spec == Init /\ [][Next]_vars

\* ------------------------------------------------------------- properties
\* x = r * M / S, decided by cross-multiplication.
IsScaled(x, r, M, S) == x[1] * r[2] * S = r[1] * M * x[2]

\* The deck's fields other than its playback rate.
SameButRate(d1, d2) == [d1 EXCEPT !.playbackRate = d2.playbackRate] = d2

C2_SyncFailure ==
    [][(/\ last'.op = "syncDecks"
        /\ LET m == last'.arg.master
               s == last'.deck
           IN  \/ m \notin DOMAIN decks
               \/ s \notin DOMAIN decks
               \/ (m \in DOMAIN decks /\ decks[m].bpm = 0)
               \/ (s \in DOMAIN decks /\ decks[s].bpm = 0))
       => /\ last'.ret = [success |-> FALSE, reason |-> "missing_bpm"]
          /\ decks' = decks
          /\ DOMAIN decks' = DOMAIN decks
          /\ syncState' = syncState
          /\ sources' = sources
          /\ last'.emitted = <<>>]_vars

\* C2 happens: a sync was refused with the master deck created but not
\* loaded (BPM 0), while the loaded slave plays at a rate of its own.
C2_Witness ==
    /\ last.op = "syncDecks" /\ last.deck = "b" /\ last.arg.master = "a"
    /\ ~last.ret.success
    /\ "a" \in DOMAIN decks /\ decks["a"].bpm = 0
    /\ "b" \in DOMAIN decks /\ decks["b"].bpm # 0
    /\ decks["b"].isPlaying
    /\ decks["b"].playbackRate = <<5, 4>>

\* min(2.0, max(0.5, r))
RateInRange(r) ==
    IF RLt(r, <<1, 2>>) THEN <<1, 2>>
    ELSE IF RLt(<<2, 1>>, r) THEN <<2, 1>> ELSE r

Elapsed(d) == clock - started[d].at

\* C4: a pause that follows play(d, off) leaves getCurrentTime(d) at
\* off + (t1 - t0), where t0 and t1 are the clock times of the two calls; the
\* value stays while the deck is paused; a play(d) with no offset on the
\* paused deck resumes from it: getCurrentTime(d) right after the resume is
\* the paused position.
C4_RoundTrip ==
    [][\A d \in DOMAIN decks :
        /\ (/\ last'.op = "pause" /\ last'.deck = d
            /\ last'.ret = Bool(TRUE)
            /\ d \in DOMAIN started /\ Len(started[d].args) = 1)
           => getCurrentTime(decks', d, clock') =
                  started[d].args[1] + Elapsed(d)
        /\ (/\ ~decks[d].isPlaying /\ ~decks'[d].isPlaying
            /\ ~(last'.deck = d /\ last'.op \in {"stop", "seek"}))
           => getCurrentTime(decks', d, clock') =
                  getCurrentTime(decks, d, clock)
        /\ (/\ last'.op = "play" /\ last'.deck = d
            /\ last'.arg.offset = <<>>
            /\ last'.ret = Bool(TRUE) /\ ~decks[d].isPlaying)
           => getCurrentTime(decks', d, clock') =
                  getCurrentTime(decks, d, clock)]_vars

\* min(max(t, 0), duration)
TimeInRange(t, duration) ==
    IF t < 0 THEN 0 ELSE IF t > duration THEN duration ELSE t

\* C5: seek(d, t) on a deck with a buffer leaves getCurrentTime(d) at
\* min(max(t, 0), duration); a deck that was playing is playing after the
\* call, on a playing node of its own started at the clamped position; on a
\* deck that was not playing only the stored position changes and no node is
\* created.
C5_Seek ==
    [][\A d \in DOMAIN decks :
        (last'.op = "seek" /\ last'.deck = d /\ decks[d].buffer # NoBuffer)
        => LET pos == TimeInRange(last'.arg.time, decks[d].duration)
           IN  /\ getCurrentTime(decks', d, clock') = pos
               /\ decks'[d].isPlaying = decks[d].isPlaying
               /\ decks[d].isPlaying
                      => /\ decks'[d].source \in DOMAIN sources'
                         /\ sources'[decks'[d].source].playing
                         /\ sources'[decks'[d].source].deck = d
                         /\ decks'[d].startTime = clock' - pos
               /\ ~decks[d].isPlaying
                      => /\ decks' = [decks EXCEPT ![d].currentTime = pos]
                         /\ sources' = sources]_vars

\* C5 happens: seek(a, 5) on the playing deck a, whose track lasts 2 s, left
\* it playing from 2.
C5_Witness ==
    /\ last.op = "seek" /\ last.deck = "a" /\ last.arg.time = 5
    /\ last.was = "playing"
    /\ decks["a"].isPlaying
    /\ decks["a"].duration = 2
    /\ getCurrentTime(decks, "a", clock) = 2

\* The nodes of deck d that were started and have not stopped.
ActiveSources(srcs, d) ==
    {s \in DOMAIN srcs : srcs[s].deck = d /\ srcs[s].playing}

\* C6: a deck never has more than one node that was started and has not
\* stopped; a play on a deck that holds a node stops that node and lets go of
\* it, and the node play creates is then the deck's only active one.
C6_OneActiveSource ==
    /\ [](\A d \in DeckIds : Cardinality(ActiveSources(sources, d)) <= 1)
    /\ [][\A d \in DOMAIN decks :
            (/\ last'.op = "play" /\ last'.deck = d
             /\ last'.ret = Bool(TRUE)
             /\ decks[d].source # NoSource)
            => LET old == decks[d].source
               IN  /\ decks'[d].source # old
                   /\ old \in DOMAIN sources' => ~sources'[old].playing
                   /\ ActiveSources(sources', d) = {decks'[d].source}]_vars

\* C6 happens: play on the playing deck a superseded its node, which has
\* stopped and owes its 'ended' event, by the node that now plays.
C6_Witness ==
    /\ last.op = "play" /\ last.deck = "a" /\ last.ret = Bool(TRUE)
    /\ last.was = "playing" /\ last.held
    /\ Cardinality(ActiveSources(sources, "a")) = 1
    /\ \E s \in DOMAIN sources :
            sources[s].deck = "a" /\ sources[s].pendingEnded

\* The transitions of the deck state machine: idle to loaded on a decode,
\* loaded or paused to playing on play, playing to paused on pause, playing
\* to loaded at position 0 on stop.
ListedTransition(d) ==
    LET from == TransportState(decks, d)
        to == TransportState(decks', d)
        by(op) == last'.op = op /\ last'.deck = d
    IN  \/ /\ from = "idle" /\ to = "loadedOrPaused"
           /\ by("loadAudioFile:resolved")
           /\ decks'[d].currentTime = 0
        \/ from = "loadedOrPaused" /\ to = "playing" /\ by("play")
        \/ from = "playing" /\ to = "loadedOrPaused" /\ by("pause")
        \/ /\ from = "playing" /\ to = "loadedOrPaused" /\ by("stop")
           /\ decks'[d].currentTime = 0

\* Playing to loaded at position 0 when an 'ended' event of one of the
\* deck's nodes is delivered.
EndedTransition(d) ==
    /\ TransportState(decks, d) = "playing"
    /\ TransportState(decks', d) = "loadedOrPaused"
    /\ last'.op = "ended" /\ last'.deck = d
    /\ decks'[d].currentTime = 0

\* A deck begins idle, and a stop on a loaded or paused deck leaves it loaded
\* at position 0.
TransportFrame(d) ==
    /\ d \notin DOMAIN decks => TransportState(decks', d) = "idle"
    /\ (/\ d \in DOMAIN decks /\ last'.op = "stop" /\ last'.deck = d
        /\ TransportState(decks, d) = "loadedOrPaused")
       => /\ TransportState(decks', d) = "loadedOrPaused"
          /\ decks'[d].currentTime = 0

\* C7 as stated: every change of a deck's transport state is one of the
\* listed transitions; no other operation or event changes it.
C7_ListedOnly ==
    [][\A d \in DOMAIN decks' :
        /\ TransportFrame(d)
        /\ (d \in DOMAIN decks
            /\ TransportState(decks', d) # TransportState(decks, d))
           => ListedTransition(d)]_vars

\* C7 amended: every change of a deck's transport state is one of the listed
\* transitions or the transition from playing to loaded at position 0 that
\* the delivery of an 'ended' event of one of the deck's nodes makes; no
\* other operation or event changes it.
C7_ListedOrEnded ==
    [][\A d \in DOMAIN decks' :
        /\ TransportFrame(d)
        /\ (d \in DOMAIN decks
            /\ TransportState(decks', d) # TransportState(decks, d))
           => (ListedTransition(d) \/ EndedTransition(d))]_vars

\* C7 happens: an 'ended' event found deck a playing and left it not
\* playing, at position 0, still holding the node.
C7_Witness ==
    /\ last.op = "ended" /\ last.deck = "a" /\ last.was = "playing"
    /\ TransportState(decks, "a") = "loadedOrPaused"
    /\ decks["a"].currentTime = 0
    /\ decks["a"].source # NoSource

\* C8: while a deck plays on a node that a play call with an explicit offset
\* started, getCurrentTime(d) is that offset plus the clock time since the
\* call, for the offsets 0, 1 and 2 and whatever position was stored.
C8_ExplicitOffset ==
    \A d \in DOMAIN started :
        Len(started[d].args) = 1
        => getCurrentTime(decks, d, clock) = started[d].args[1] + Elapsed(d)

\* C9: stop(d) on an existing deck returns true and leaves the deck not
\* playing, holding no node, with no active node and at position 0; its
\* buffer, duration, BPM, rate, EQ gains and volume are unchanged; a play(d)
\* with no offset that follows starts from 0.
C9_Stop ==
    [][\A d \in DOMAIN decks :
        /\ (last'.op = "stop" /\ last'.deck = d)
           => /\ last'.ret = Bool(TRUE)
              /\ decks'[d] = [decks[d] EXCEPT !.isPlaying = FALSE,
                                              !.source = NoSource,
                                              !.currentTime = 0]
              /\ ActiveSources(sources', d) = {}
              /\ getCurrentTime(decks', d, clock') = 0
        /\ (/\ last.op = "stop" /\ last.deck = d
            /\ last'.op = "play" /\ last'.deck = d
            /\ last'.arg.offset = <<>>
            /\ last'.ret = Bool(TRUE))
           => /\ getCurrentTime(decks', d, clock') = 0
              /\ decks'[d].startTime = clock']_vars

\* C9 happens: stop(a) on the playing deck a, after the clock had advanced.
C9_Witness ==
    /\ last.op = "stop" /\ last.deck = "a" /\ last.ret = Bool(TRUE)
    /\ last.was = "playing" /\ last.held
    /\ clock > 0
    /\ ~decks["a"].isPlaying
    /\ decks["a"].source = NoSource
    /\ decks["a"].currentTime = 0

\* C10: play on an unknown deck or a deck without a buffer, pause on an
\* unknown or not-playing deck and stop on an unknown deck return false;
\* seek, setVolume, setEQ and setPlaybackRate on an unknown deck return
\* nothing; in each case no deck, no node and no sync state changes, no deck
\* is created and the call returns normally.
C10_MissingTarget ==
    [][LET d == last'.deck
           op == last'.op
           unknown == d \notin DOMAIN decks
           same == /\ decks' = decks
                   /\ DOMAIN decks' = DOMAIN decks
                   /\ sources' = sources
                   /\ syncState' = syncState
                   /\ last'.emitted = <<>>
       IN  /\ (op = "play" /\ (unknown \/ last'.was = "idle"))
              => (last'.ret = Bool(FALSE) /\ same)
           /\ (op = "pause" /\ (unknown \/ last'.was # "playing"))
              => (last'.ret = Bool(FALSE) /\ same)
           /\ (op = "stop" /\ unknown)
              => (last'.ret = Bool(FALSE) /\ same)
           /\ (/\ op \in {"seek", "setVolume", "setEQ", "setPlaybackRate"}
               /\ unknown)
              => (last'.ret = Undefined /\ same)]_vars

\* C10 happens: setPlaybackRate on the unknown deck b while deck a plays.
C10_Witness ==
    /\ last.op = "setPlaybackRate" /\ last.deck = "b"
    /\ last.was = "absent"
    /\ "b" \notin DOMAIN decks
    /\ "a" \in DOMAIN decks
    /\ decks["a"].isPlaying

\* C11: createDeck(id) for an id that already has a deck returns that deck,
\* leaves the number of decks unchanged and changes no field of the deck
\* (buffer, duration, transport state, position, rate, BPM, EQ gains,
\* volume), whatever state the deck is in, playing included.
C11_CreateDeckIdempotent ==
    [][\A d \in DOMAIN decks :
        (last'.op = "createDeck" /\ last'.deck = d)
        => /\ last'.ret = [deck |-> d]
           /\ Cardinality(DOMAIN decks') = Cardinality(DOMAIN decks)
           /\ decks'[d] = decks[d]
           /\ decks' = decks
           /\ TransportState(decks', d) = TransportState(decks, d)
           /\ getCurrentTime(decks', d, clock')
              = getCurrentTime(decks, d, clock)
           /\ sources' = sources]_vars

\* C11 happens: createDeck(a) while deck a plays with a volume, an EQ gain
\* and a rate that are not those of a new deck.
C11_Witness ==
    /\ last.op = "createDeck" /\ last.deck = "a"
    /\ last.was = "playing" /\ last.held
    /\ last.ret = [deck |-> "a"]
    /\ decks["a"].isPlaying
    /\ decks["a"].gain = <<1, 2>>
    /\ decks["a"].filterMid = <<6, 1>>
    /\ decks["a"].playbackRate = <<5, 4>>
    /\ decks["a"].bpm = 128

\* min(hi, max(lo, x)) of three rationals.
MinMax(lo, hi, x) ==
    LET m == IF RLe(lo, x) THEN x ELSE lo
    IN  IF RLe(m, hi) THEN m ELSE hi

InRange(lo, hi, x) == RLe(lo, x) /\ RLe(x, hi)

\* C12: setEQ(d, band, g) with band low, mid or high sets that band's gain
\* to min(40, max(-40, g)) and leaves the other two bands and every other
\* field alone; setVolume(d, v) sets the deck gain to min(1, max(0, v)); in
\* every state every EQ band gain is in [-40, 40] and every deck volume is in
\* [0, 1].
C12_ParamsClamped ==
    /\ [](\A d \in DOMAIN decks :
            /\ InRange(<<-40, 1>>, <<40, 1>>, decks[d].filterHigh)
            /\ InRange(<<-40, 1>>, <<40, 1>>, decks[d].filterMid)
            /\ InRange(<<-40, 1>>, <<40, 1>>, decks[d].filterLow)
            /\ InRange(<<0, 1>>, <<1, 1>>, decks[d].gain))
    /\ [][\A d \in DOMAIN decks :
            /\ (last'.op = "setEQ" /\ last'.deck = d)
               => LET g == MinMax(<<-40, 1>>, <<40, 1>>, last'.arg.gain)
                      band == last'.arg.band
                  IN  /\ band = "high"
                         => decks'[d] = [decks[d] EXCEPT !.filterHigh = g]
                      /\ band = "mid"
                         => decks'[d] = [decks[d] EXCEPT !.filterMid = g]
                      /\ band = "low"
                         => decks'[d] = [decks[d] EXCEPT !.filterLow = g]
            /\ (last'.op = "setVolume" /\ last'.deck = d)
               => decks'[d] = [decks[d] EXCEPT !.gain =
                      MinMax(<<0, 1>>, <<1, 1>>, last'.arg.volume)]]_vars

\* C12 happens: setEQ(a, low, 50) stored 40 on the low band of a deck whose
\* mid band holds -40 and whose volume a setVolume(a, -1) had set to 0.
C12_Witness ==
    /\ last.op = "setEQ" /\ last.deck = "a"
    /\ last.arg = [band |-> "low", gain |-> <<50, 1>>]
    /\ last.was = "idle"
    /\ decks["a"].filterLow = <<40, 1>>
    /\ decks["a"].filterMid = <<-40, 1>>
    /\ decks["a"].filterHigh = <<6, 1>>
    /\ decks["a"].gain = <<0, 1>>

\* C13: setPlaybackRate(d, r) on a playing deck gives the clamped rate to
\* the node in flight, which stays the deck's node and keeps playing, and
\* leaves isPlaying, startTime, currentTime and getCurrentTime(d) unchanged;
\* on a deck that is not playing it changes only the stored rate; the node
\* that a play creates carries the stored rate.
C13_RateFrame ==
    [][\A d \in DOMAIN decks :
        /\ (last'.op = "setPlaybackRate" /\ last'.deck = d)
           => LET r == MinMax(<<1, 2>>, <<2, 1>>, last'.arg.rate)
                  s == decks[d].source
              IN  /\ decks'[d] = [decks[d] EXCEPT !.playbackRate = r]
                  /\ \A e \in DOMAIN decks \ {d} : decks'[e] = decks[e]
                  /\ getCurrentTime(decks', d, clock')
                     = getCurrentTime(decks, d, clock)
                  /\ DOMAIN sources' = DOMAIN sources
                  /\ IF decks[d].isPlaying /\ s # NoSource
                        /\ sources[s].playing
                     THEN sources' = [sources EXCEPT ![s].playbackRate = r]
                     ELSE sources' = sources
        /\ (last'.op = "play" /\ last'.deck = d /\ last'.ret = Bool(TRUE))
           => sources'[decks'[d].source].playbackRate
              = decks[d].playbackRate]_vars

\* C13 happens: setPlaybackRate(a, 3) on deck a one second into playback:
\* its node plays on at rate 2.
C13_Witness ==
    /\ last.op = "setPlaybackRate" /\ last.deck = "a"
    /\ last.arg.rate = <<3, 1>>
    /\ last.was = "playing" /\ last.held
    /\ decks["a"].isPlaying
    /\ getCurrentTime(decks, "a", clock) = 1
    /\ decks["a"].playbackRate = <<2, 1>>
    /\ sources[decks["a"].source].playing
    /\ sources[decks["a"].source].playbackRate = <<2, 1>>

\* C13 happens for a deck at rest: play(a) right after setPlaybackRate on
\* the paused deck a started a node at the rate 0.5.
C13_WitnessNextPlay ==
    /\ last.op = "play" /\ last.deck = "a" /\ last.ret = Bool(TRUE)
    /\ decks["a"].currentTime > 0
    /\ sources[decks["a"].source].playbackRate = <<1, 2>>

\* The peaks that detection accepts in the buffer of the last detectBPM
\* call, and the intervals between consecutive ones.
AcceptedPeaks ==
    LET b == last.arg.buffer
    IN  detectPeaks(lowPassFilter(b.data, b.sampleRate, 200), b.sampleRate)

AcceptedIntervals == Intervals(AcceptedPeaks)

\* C14: detectBPM returns an integer in [60, 200] for every buffer (empty,
\* one sample, any values, any rate, no channel), and every BPM that a load
\* stores on a deck is the estimate it returns, an integer in [60, 200].
C14_BPMInRange ==
    /\ last.op = "detectBPM" => last.ret.number \in 60..200
    /\ last.op = "loadAudioFile:resolved"
       => /\ decks[last.deck].bpm \in 60..200
          /\ decks[last.deck].bpm = last.ret.bpm
    /\ \A d \in DOMAIN decks : decks[d].bpm \in {0} \cup 60..200

\* C14 happens: detectBPM returned 200 for a buffer with peaks a quarter of
\* a second apart, whose unclamped estimate is 240.
C14_Witness ==
    /\ last.op = "detectBPM"
    /\ Len(AcceptedPeaks) >= 2
    /\ \A i \in DOMAIN AcceptedIntervals : AcceptedIntervals[i] = <<1, 4>>
    /\ last.ret.number = 200

\* m is the median of the intervals: the middle one of an odd number of
\* intervals in order of size, the upper of the two middle ones of an even
\* number.
IsMedian(m, intervals) ==
    LET n == Len(intervals)
        below == Cardinality({j \in 1..n : RLt(intervals[j], m)})
        upTo == Cardinality({j \in 1..n : RLe(intervals[j], m)})
    IN  below <= n \div 2 /\ n \div 2 < upTo

\* r = round(60 / m) for m > 0: r - 1/2 <= 60 / m < r + 1/2.
IsRounded(r, m) ==
    /\ (2 * r - 1) * m[1] <= 120 * m[2]
    /\ 120 * m[2] < (2 * r + 1) * m[1]

C15_WitnessThrow ==
    /\ last.op = "detectBPM"
    /\ last.arg.buffer.numberOfChannels = 0
    /\ last.ret.number = 120

\* The loads in flight that target deck d.
PendingOn(d) == {s \in DOMAIN loads : loads[s].deck = d}

\* C16: whenever no load is pending on a deck, its buffer, duration and BPM
\* come from the same load (or from none): the stored BPM is the estimate
\* of the stored buffer, however the loads of the deck interleaved.
C16_LoadsConsistent ==
    \A d \in DOMAIN decks :
        PendingOn(d) = {}
        => \/ /\ decks[d].buffer = NoBuffer
              /\ decks[d].duration = 0
              /\ decks[d].bpm = 0
           \/ /\ decks[d].buffer \in Files
              /\ decks[d].duration = FileDuration(decks[d].buffer)
              /\ decks[d].bpm = detectBPM(FileBuffer(decks[d].buffer))

\* C16 happens: the last of two loads of deck a has resolved; it had stored
\* its buffer while the other was suspended at the estimation, and waited
\* behind it.
C16_Witness ==
    /\ last.op = "loadAudioFile:resolved" /\ last.deck = "a"
    /\ last.arg = [file |-> "long124", behind |-> 1]
    /\ PendingOn("a") = {}
    /\ decks["a"].buffer = "long124"
    /\ decks["a"].bpm = 124

\* C17: when decoding fails, loadAudioFile rejects with the error, calls
\* onError once and no other callback, and leaves every deck and node as it
\* was: buffer, duration, BPM and transport state are those from before the
\* step, and on a deck without a buffer play still returns false.  The call
\* itself had changed nothing but to create the deck when it was missing.
C17_DecodeFailure ==
    [][\A d \in DeckIds :
        /\ (last'.op = "loadAudioFile:rejected" /\ last'.deck = d)
           => /\ last'.ret = Thrown("EncodingError")
              /\ last'.emitted = <<[name |-> "onError"]>>
              /\ decks' = decks
              /\ sources' = sources
              /\ TransportState(decks', d) = last'.was
              /\ last'.was = "idle"
                 => play(Hub', d, <<>>, clock').ret = Bool(FALSE)
        /\ (last'.op = "loadAudioFile" /\ last'.deck = d
            /\ last'.arg.file = BadFile /\ audioContext = "running")
           => /\ last'.emitted = <<>>
              /\ \A e \in DOMAIN decks : decks'[e] = decks[e]
              /\ DOMAIN decks' = DOMAIN decks \cup {d}
              /\ d \notin DOMAIN decks => decks'[d] = NewDeck(d)
              /\ sources' = sources]_vars

\* C17 happens: the load of a file that does not decode was rejected on
\* deck a, which has no buffer.
C17_Witness ==
    /\ last.op = "loadAudioFile:rejected" /\ last.deck = "a"
    /\ last.arg.file = BadFile
    /\ last.was = "idle"
    /\ last.emitted = <<[name |-> "onError"]>>
    /\ decks["a"].buffer = NoBuffer
    /\ decks["a"].bpm = 0

\* C17 happens on a deck in use: the load was rejected while deck a plays
\* the 128 BPM track.
C17_WitnessPlaying ==
    /\ last.op = "loadAudioFile:rejected" /\ last.deck = "a"
    /\ last.was = "playing"
    /\ decks["a"].isPlaying
    /\ decks["a"].buffer = "short128"
    /\ decks["a"].bpm = 128

\* The callbacks of the given name among those the last step invoked.
Fired(step, name) ==
    {i \in DOMAIN step.emitted : step.emitted[i].name = name}

\* C18: onBPMDetected is called exactly once by the step that resolves a
\* load, after the load's buffer and the BPM are stored on the deck and with
\* the stored BPM, and by no other step (not by a load that fails); a load
\* leaves the calls in flight by resolving or rejecting only; onSyncUpdate
\* is called exactly once by a syncDecks that returns success, and by no
\* other step (not by a syncDecks that returns failure).
C18_Callbacks ==
    [][/\ IF last'.op = "loadAudioFile:resolved"
          THEN /\ Cardinality(Fired(last', "onBPMDetected")) = 1
               /\ Len(last'.emitted) = 1
               /\ last'.emitted[1].deckId = last'.deck
               /\ last'.emitted[1].buffer = last'.arg.file
               /\ last'.emitted[1].bpm = decks'[last'.deck].bpm
               /\ last'.ret.bpm = decks'[last'.deck].bpm
               /\ decks[last'.deck].buffer \in Files
               /\ decks'[last'.deck].buffer \in Files
               /\ \E slot \in DOMAIN loads :
                    /\ DOMAIN loads' = DOMAIN loads \ {slot}
                    /\ loads[slot].file = last'.arg.file
                    /\ loads[slot].stage = "estimate"
          ELSE Fired(last', "onBPMDetected") = {}
       /\ last'.op = "loadAudioFile:rejected"
          => /\ Fired(last', "onError") = {1}
             /\ Len(last'.emitted) = 1
       /\ DOMAIN loads' # DOMAIN loads
          => last'.op \in {"loadAudioFile", "loadAudioFile:resolved",
                           "loadAudioFile:rejected"}
       /\ IF last'.op = "syncDecks"
          THEN IF last'.ret.success
               THEN /\ Cardinality(Fired(last', "onSyncUpdate")) = 1
                    /\ Len(last'.emitted) = 1
               ELSE last'.emitted = <<>>
          ELSE Fired(last', "onSyncUpdate") = {}]_vars

\* C18 happens: a load of deck a resolved and called onBPMDetected once with
\* the stored 128 BPM, in a run in which a sync had succeeded before.
C18_Witness ==
    /\ last.op = "loadAudioFile:resolved" /\ last.deck = "a"
    /\ Len(last.emitted) = 1
    /\ last.emitted[1].name = "onBPMDetected"
    /\ last.emitted[1].bpm = 128
    /\ decks["a"].bpm = 128
    /\ syncState.syncEnabled

\* C18 happens for a sync: syncDecks(a, a) returned success and called
\* onSyncUpdate once.
C18_WitnessSync ==
    /\ last.op = "syncDecks" /\ last.deck = "a"
    /\ last.arg.master = "a"
    /\ last.ret.success
    /\ Len(last.emitted) = 1
    /\ last.emitted[1].name = "onSyncUpdate"

\* C19: the sync state is written by a syncDecks that returns success and by
\* no other step (transport, load, setter, MIDI message, timecode sample,
\* failed syncDecks); a successful syncDecks(m, s) leaves master id m,
\* enabled true and offset masterBPM - slaveBPM, the values it returns.
C19_SyncStateWriter ==
    [][IF last'.op = "syncDecks" /\ last'.ret.success
       THEN /\ syncState'.masterDeck = last'.arg.master
            /\ syncState'.syncEnabled = TRUE
            /\ syncState'.bpmOffset =
                   decks[last'.arg.master].bpm - decks[last'.deck].bpm
            /\ syncState'.bpmOffset =
                   last'.ret.masterBPM - last'.ret.slaveBPM
       ELSE syncState' = syncState]_vars

\* C19 happens: syncDecks(b, a) succeeded after an earlier sync with master
\* a, and left master b, enabled and the offset 60 - 128.
C19_Witness ==
    /\ last.op = "syncDecks" /\ last.ret.success
    /\ last.arg.master = "b" /\ last.deck = "a"
    /\ syncState = [masterDeck |-> "b", syncEnabled |-> TRUE,
                    bpmOffset |-> 0 - 68]

\* C19 happens for the frame: a syncDecks that failed, deck b having no BPM
\* yet, left the state of the earlier syncDecks(a, a) as it was; so did a
\* rate set by hand and a timecode sample after syncDecks(a, b).
C19_WitnessFailed ==
    /\ last.op = "syncDecks" /\ ~last.ret.success
    /\ syncState = [masterDeck |-> "a", syncEnabled |-> TRUE,
                    bpmOffset |-> 0]

C19_WitnessTimecode ==
    /\ last.op = "timecode"
    /\ syncState = [masterDeck |-> "a", syncEnabled |-> TRUE,
                    bpmOffset |-> 68]

C19_WitnessSetter ==
    /\ last.op = "setPlaybackRate"
    /\ syncState = [masterDeck |-> "a", syncEnabled |-> TRUE,
                    bpmOffset |-> 68]

\* C20: the rate a successful syncDecks returns, and the rate it hands to
\* onSyncUpdate, are the slave deck's playback rate as stored after the
\* call.
C20_AppliedRate ==
    [][last'.op = "syncDecks" /\ last'.ret.success
       => /\ last'.ret.playbackRate = decks'[last'.deck].playbackRate
          /\ \A i \in Fired(last', "onSyncUpdate") :
                last'.emitted[i].adjustedRate =
                    decks'[last'.deck].playbackRate]_vars

\* The same with the product of the prior rate and the BPM ratio inside
\* [0.5, 2.0]: there the returned rate is the stored one.
C20_AppliedRateInRange ==
    [][/\ last'.op = "syncDecks" /\ last'.ret.success
       /\ RLe(<<1, 2>>, last'.ret.playbackRate)
       /\ RLe(last'.ret.playbackRate, <<2, 1>>)
       => /\ last'.ret.playbackRate = decks'[last'.deck].playbackRate
          /\ \A i \in Fired(last', "onSyncUpdate") :
                last'.emitted[i].adjustedRate =
                    decks'[last'.deck].playbackRate]_vars

\* C21: after a successful syncDecks(m, s) with masterBPM / slaveBPM inside
\* [0.5, 2.0] the slave's rate is masterBPM / slaveBPM, whatever it was
\* before, and a second syncDecks(m, s) right after leaves it unchanged.
C21_SyncMatchesBPM ==
    [][LET m == last'.arg.master
           s == last'.deck
       IN  (/\ last'.op = "syncDecks" /\ last'.ret.success
            /\ RLe(<<1, 2>>, Rat(decks[m].bpm, decks[s].bpm))
            /\ RLe(Rat(decks[m].bpm, decks[s].bpm), <<2, 1>>))
           => /\ decks'[s].playbackRate = Rat(decks[m].bpm, decks[s].bpm)
              /\ syncDecks(Hub', m, s).decks[s].playbackRate =
                     decks'[s].playbackRate]_vars

\* The same for a slave whose rate before the call is 1: the rate becomes
\* masterBPM / slaveBPM.
C21_SyncFromUnitRate ==
    [][LET m == last'.arg.master
           s == last'.deck
       IN  (/\ last'.op = "syncDecks" /\ last'.ret.success
            /\ decks[s].playbackRate = <<1, 1>>
            /\ RLe(<<1, 2>>, Rat(decks[m].bpm, decks[s].bpm))
            /\ RLe(Rat(decks[m].bpm, decks[s].bpm), <<2, 1>>))
           => decks'[s].playbackRate = Rat(decks[m].bpm, decks[s].bpm)]_vars

\* C22: a timecode sample for a deck that has a transport source sets the
\* deck's playback rate to the absolute value of the sample's speed; a
\* backward sample on a playing deck leaves the rate 0.1.
C22_TimecodeRate ==
    [][LET d == last'.deck
       IN  (/\ last'.op = "timecode" /\ d \in DOMAIN decks
            /\ decks[d].source # NoSource)
           => IF last'.arg.direction = "backward" /\ decks[d].isPlaying
              THEN decks'[d].playbackRate = <<1, 10>>
              ELSE decks'[d].playbackRate = MathAbs(last'.arg.speed)]_vars

\* The same with the rate of a backward sample on a playing deck as
\* setPlaybackRate stores it: the lower end of its range.
C22_TimecodeRateStored ==
    [][LET d == last'.deck
       IN  (/\ last'.op = "timecode" /\ d \in DOMAIN decks
            /\ decks[d].source # NoSource)
           => IF last'.arg.direction = "backward" /\ decks[d].isPlaying
              THEN decks'[d].playbackRate = <<1, 2>>
              ELSE decks'[d].playbackRate = MathAbs(last'.arg.speed)]_vars

\* The detectors whose polling loop is alive and whose closure names deck d.
RunningFor(d) == {id \in DOMAIN detectors : detectors[id].deck = d}

\* dvsEnabled.get(d) is true.
DVSOn(d) ==
    IF d \in DOMAIN analog.dvsEnabled THEN analog.dvsEnabled[d] ELSE FALSE

\* C23: whatever enableDVS and disableDVS calls were made, every deck has at
\* most one detector whose loop runs, dvsEnabled is true for a deck exactly
\* when a detector is registered for it, and once disableDVS(d) has returned
\* no loop runs for d: no sample for d is delivered (no onTimecodeDetected,
\* no rate change) until enableDVS(d) is called again.
C23_DVSLifecycle ==
    /\ [](\A d \in DeckIds :
            /\ Cardinality(RunningFor(d)) <= 1
            /\ DVSOn(d) <=> d \in DOMAIN analog.timecodeDetectors
            /\ ~DVSOn(d) => RunningFor(d) = {})
    /\ [][last'.op = "timecode" => DVSOn(last'.deck)]_vars

\* The same for decks on which DVS is enabled at most once between two
\* disableDVS calls: stated for the registered detector only.
C23_RegisteredDetector ==
    \A d \in DeckIds :
        /\ DVSOn(d) <=> d \in DOMAIN analog.timecodeDetectors
        /\ DVSOn(d) => analog.timecodeDetectors[d] \in RunningFor(d)

\* C24: at most one level-monitoring loop runs per deck, whatever connect
\* and disconnect calls were made, and a loop runs only while its deck's
\* interface is connected: after disconnectAudioInterface(d) or
\* AnalogDeck.destroy() has returned no frame of a loop for d calls
\* onLevelUpdate.
C24_LevelLoopCancelled ==
    /\ [](\A d \in DOMAIN monitors : monitors[d] <= 1)
    /\ [][last'.op = "levelMonitor"
          => last'.deck \in analog.audioInputs]_vars

\* What is left of the AnalogDeck instance and its objects in world w.
AnalogPart(w) == <<w.analog, w.streams, w.detectors, w.monitors, w.hub.decks>>

\* C25: when AnalogDeck.destroy() returns, whatever connect, disconnect,
\* enableDVS and disableDVS calls preceded, every stream that was opened is
\* stopped, no input node is registered, no detector runs and dvsEnabled is
\* false for every deck; a second destroy() throws nothing and changes
\* nothing.
C25_AnalogDestroyed ==
    [][last'.op = "AnalogDeck.destroy"
       => /\ streams' = {}
          /\ analog'.audioInputs = {}
          /\ detectors' = <<>>
          /\ \A d \in DeckIds : ~DVSOn(d)'
          /\ last'.ret = Undefined
          /\ destroyAnalogDeck(World').hub.ret = Undefined
          /\ AnalogPart(destroyAnalogDeck(World')) = AnalogPart(World')]_vars

\* The same for what the instance has registered: no input node and no
\* detector is left in its maps, dvsEnabled is false for every deck, and a
\* second destroy() throws nothing and changes nothing.
C25_RegisteredReleased ==
    [][last'.op = "AnalogDeck.destroy"
       => /\ analog'.audioInputs = {}
          /\ analog'.timecodeDetectors = <<>>
          /\ \A d \in DeckIds : ~DVSOn(d)'
          /\ last'.ret = Undefined
          /\ destroyAnalogDeck(World').hub.ret = Undefined
          /\ AnalogPart(destroyAnalogDeck(World')) = AnalogPart(World')]_vars

\* What destroy() leaves on the instance's fields: no deck, no node that
\* plays, no microphone or remote field set, no context; and a second
\* destroy() returns without throwing and changes none of them.
FieldsCleared ==
    /\ decks' = <<>>
    /\ \A s \in DOMAIN sources' : ~sources'[s].playing
    /\ ~inputs'.micStream /\ ~inputs'.micSource
    /\ inputs'.remoteAudioSource = "null"
    /\ audioContext' = "null"
    /\ last'.ret = Undefined
    /\ destroy(Hub').ret = Undefined
    /\ destroy(Hub').decks = decks'
    /\ Collect(destroy(Hub').sources, <<>>) = sources'
    /\ destroy(Hub').syncState = syncState'
    /\ disconnectRemoteAudio(disableInput(inputs')) = inputs'

\* C26: when AudioSync.destroy() returns, on an instance in use, destroyed
\* before or never initialized, every deck is stopped (no deck is left, no
\* node plays), the microphone is released (no microphone stream is live)
\* and so is the remote input, the context is null, and a second destroy()
\* throws nothing and changes nothing.
C26_Destroyed ==
    [][last'.op = "destroy" => FieldsCleared /\ inputs'.live = 0]_vars

\* The same without the microphone streams that the instance no longer
\* holds.
C26_FieldsCleared ==
    [][last'.op = "destroy" => FieldsCleared]_vars

\* The last step dispatched a MIDI message whose (inputId, note) pair had
\* no mapping.
UnmappedMessage ==
    /\ last'.op = "midi"
    /\ MappingKey(last'.arg.inputId, last'.arg.data1)
            \notin DOMAIN analog.midiMappings

\* C27: a MIDI message whose (inputId, note) pair has no mapping changes no
\* deck (transport, volume, EQ, rate), no node, not the sync state and no
\* mapping, and returns without throwing, whatever its command kind and
\* data byte.
C27_UnmappedNoOp ==
    [][UnmappedMessage
       => /\ decks' = decks
          /\ sources' = sources
          /\ started' = started
          /\ syncState' = syncState
          /\ analog' = analog
          /\ last'.ret = Undefined]_vars

\* C27 happens: a note-on for note 20 arrived while all seven mappings were
\* installed and deck a was playing at the rate a pitch message had set.
C27_Witness ==
    /\ last.op = "midi"
    /\ last.arg = [inputId |-> "in1", status |-> 144, data1 |-> 20,
                   data2 |-> 127]
    /\ Cardinality(DOMAIN analog.midiMappings) = 7
    /\ "a" \in DOMAIN decks
    /\ decks["a"].isPlaying
    /\ decks["a"].playbackRate = <<29, 25>>

\* The last step dispatched a MIDI message through a mapping with the given
\* action; MappedDeck is the mapping's target deck.
MappedMessage(action) ==
    /\ last'.op = "midi"
    /\ MappingKey(last'.arg.inputId, last'.arg.data1)
            \in DOMAIN analog.midiMappings
    /\ analog.midiMappings[MappingKey(last'.arg.inputId,
                                      last'.arg.data1)].action = action

MappedDeck ==
    analog.midiMappings[MappingKey(last'.arg.inputId,
                                   last'.arg.data1)].deckId

C28_WitnessVolume ==
    /\ last.op = "midi"
    /\ last.arg = [inputId |-> "in1", status |-> 225, data1 |-> 13,
                   data2 |-> 127]
    /\ "a" \in DOMAIN decks
    /\ decks["a"].isPlaying
    /\ decks["a"].gain = <<1, 1>>

\* The gains the eq action computes for the data bytes 0..127, with the
\* three values the formula is quoted for.
EQGainsOfBytes ==
    /\ EQGain(<<1, 2>>) = <<0, 1>>
    /\ EQGain(<<1, 1>>) = <<12, 1>>
    /\ EQGain(<<0, 1>>) = <<-12, 1>>
    /\ \A byte \in 0..127 :
            /\ InRange(<<-12, 1>>, <<12, 1>>, EQGain(Rat(byte, 127)))
            /\ ClampGain(EQGain(Rat(byte, 127))) = EQGain(Rat(byte, 127))

MappedParameter ==
    analog.midiMappings[MappingKey(last'.arg.inputId,
                                   last'.arg.data1)].parameter

\* C29: a message with data byte b through an eq mapping with parameter low,
\* mid or high sets that band's gain on the target deck to
\* (b / 127 - 0.5) * 24 and leaves the deck's other fields, the other two
\* bands among them, and the nodes unchanged; the formula gives 0 at 0.5,
\* +12 at 1 and -12 at 0, and for every byte a gain in [-12, 12] that the
\* [-40, 40] clamp returns as it is.
C29_EQGain ==
    /\ []EQGainsOfBytes
    /\ [][MappedMessage("eq") /\ MappedDeck \in DOMAIN decks
          => /\ MappedParameter \in {"low", "mid", "high"}
             /\ LET g == EQGain(Rat(last'.arg.data2, 127))
                    d == MappedDeck
                IN  decks' =
                      CASE MappedParameter = "high" ->
                               [decks EXCEPT ![d].filterHigh = g]
                        [] MappedParameter = "mid" ->
                               [decks EXCEPT ![d].filterMid = g]
                        [] MappedParameter = "low" ->
                               [decks EXCEPT ![d].filterLow = g]
             /\ sources' = sources]_vars

\* C29 happens: data byte 0 arrived through the eq mapping of the low band
\* and set it to -12 while the high and mid bands stood at +12.
C29_Witness ==
    /\ last.op = "midi"
    /\ last.arg.data1 = 18
    /\ last.arg.data2 = 0
    /\ "a" \in DOMAIN decks
    /\ decks["a"].filterLow = <<-12, 1>>
    /\ decks["a"].filterMid = <<12, 1>>
    /\ decks["a"].filterHigh = <<12, 1>>

\* The rates the pitch action computes for the data bytes 0..127, with the
\* ends and the centre of the fader.
PitchValuesOfBytes ==
    /\ PitchValue(<<1, 2>>) = <<1, 1>>
    /\ PitchValue(<<1, 1>>) = <<29, 25>>
    /\ PitchValue(<<0, 1>>) = <<21, 25>>
    /\ \A byte \in 0..127 :
            /\ InRange(<<21, 25>>, <<29, 25>>, PitchValue(Rat(byte, 127)))
            /\ ClampRate(PitchValue(Rat(byte, 127)))
                    = PitchValue(Rat(byte, 127))

\* C30: a message with data byte b through a pitch mapping sets the target
\* deck's playback rate to 1 + (b / 127 - 0.5) * 2 * 0.16, on the node that
\* plays too, and changes nothing else: the deck's transport state, its
\* stored position and start time and the position getCurrentTime reports
\* are as before; for every byte the rate lies in [0.84, 1.16] and the
\* [0.5, 2.0] clamp returns it as it is.
C30_PitchRate ==
    /\ []PitchValuesOfBytes
    /\ [][MappedMessage("pitch") /\ MappedDeck \in DOMAIN decks
          => LET r == PitchValue(Rat(last'.arg.data2, 127))
                 d == MappedDeck
             IN  /\ decks' = [decks EXCEPT ![d].playbackRate = r]
                 /\ TransportState(decks', d) = TransportState(decks, d)
                 /\ getCurrentTime(decks', d, clock')
                        = getCurrentTime(decks, d, clock)
                 /\ started' = started
                 /\ sources' =
                        IF decks[d].source # NoSource /\ decks[d].isPlaying
                        THEN [sources EXCEPT
                                  ![decks[d].source].playbackRate = r]
                        ELSE sources]_vars

\* C30 happens: data byte 0 arrived through the pitch mapping while deck a
\* was playing, and the deck and its node run at 0.84.
C30_Witness ==
    /\ last.op = "midi"
    /\ last.arg.data1 = 14
    /\ last.arg.data2 = 0
    /\ "a" \in DOMAIN decks
    /\ decks["a"].isPlaying
    /\ decks["a"].source # NoSource
    /\ decks["a"].playbackRate = <<21, 25>>
    /\ sources[decks["a"].source].playbackRate = <<21, 25>>

\* The last step logged the warning of the switch's default branch.
UnknownActionLogged ==
    \E i \in DOMAIN last'.emitted : last'.emitted[i].name = "log"

\* C31: a message through a mapping whose action is crossfader, cue or
\* hotcue does not take the default branch of the switch (no 'Unknown MIDI
\* action' warning) and changes nothing: no deck, no node, not the sync
\* state and not the mapping table, and nothing is thrown, whatever the
\* status and data bytes; a mapping with an action the switch does not
\* know takes the default branch.
C31_KnownWithoutEffect ==
    [][/\ (MappedMessage("crossfader") \/ MappedMessage("cue")
            \/ MappedMessage("hotcue"))
          => /\ ~UnknownActionLogged
             /\ decks' = decks
             /\ sources' = sources
             /\ started' = started
             /\ syncState' = syncState
             /\ analog' = analog
             /\ last'.ret = Undefined
       /\ MappedMessage("loop") => UnknownActionLogged]_vars

\* C31 happens: a note-on arrived through the cue mapping while deck a was
\* playing.
C31_Witness ==
    /\ last.op = "midi"
    /\ last.arg = [inputId |-> "in1", status |-> 144, data1 |-> 22,
                   data2 |-> 127]
    /\ MappingKey("in1", 22) \in DOMAIN analog.midiMappings
    /\ analog.midiMappings[MappingKey("in1", 22)].action = "cue"
    /\ "a" \in DOMAIN decks
    /\ decks["a"].isPlaying

\* A control change arrived through the crossfader mapping, and a note-on
\* through the mapping with the unknown action, which was logged.
C31_WitnessCrossfader ==
    /\ last.op = "midi"
    /\ last.arg.data1 = 21
    /\ last.arg.status = 176
    /\ MappingKey("in1", 21) \in DOMAIN analog.midiMappings

C31_WitnessUnknown ==
    /\ last.op = "midi"
    /\ last.arg.data1 = 24
    /\ Len(last.emitted) = 2
    /\ last.emitted[1].name = "log"

\* C32: the mapping table is a map keyed by (inputId, note) in which the
\* last write wins.  addMIDIMapping(m) leaves the table with m at m's key,
\* whatever was there, and every other key as it was; removeMIDIMapping
\* takes its key out and leaves the others; neither touches another field.
\* A message on a key that is not in the table, removed keys among them,
\* changes no deck and no node.  loadControllerMapping with a name that has
\* no preset, or an empty one, leaves the table as it was.
C32_LastWriteWins ==
    [][/\ last'.op = "addMIDIMapping"
          => LET m == last'.arg.mapping
                 key == MappingKey(m.inputId, m.note)
             IN  analog' = [analog EXCEPT !.midiMappings =
                    [k \in DOMAIN analog.midiMappings \cup {key} |->
                        IF k = key THEN m ELSE analog.midiMappings[k]]]
       /\ last'.op = "removeMIDIMapping"
          => LET key == MappingKey(last'.arg.inputId, last'.arg.note)
             IN  analog' = [analog EXCEPT !.midiMappings =
                    [k \in DOMAIN analog.midiMappings \ {key} |->
                        analog.midiMappings[k]]]
       /\ UnmappedMessage
          => decks' = decks /\ sources' = sources /\ started' = started
       /\ last'.op = "loadControllerMapping"
          /\ last'.arg.controllerType \in {"numark-mixtrack", "akai-apc"}
          => analog' = analog]_vars

\* C32 happens: a message on note 11 found the volume mapping there while
\* deck a was playing, which only the play mapping that note 11 held before
\* can have started.
C32_Witness ==
    /\ last.op = "midi"
    /\ last.arg.data1 = 11
    /\ MappingKey("in1", 11) \in DOMAIN analog.midiMappings
    /\ analog.midiMappings[MappingKey("in1", 11)].action = "volume"
    /\ "a" \in DOMAIN decks
    /\ decks["a"].isPlaying
    /\ decks["a"].gain = <<0, 1>>

\* A note-on arrived on note 11 after its play mapping, which had started
\* deck a, was removed.
C32_WitnessRemoved ==
    /\ last.op = "midi"
    /\ last.arg.data1 = 11
    /\ last.arg.status = 144
    /\ MappingKey("in1", 11) \notin DOMAIN analog.midiMappings
    /\ "a" \in DOMAIN decks
    /\ decks["a"].isPlaying

\* A controller name without a preset was loaded into a table that held
\* mappings.
C32_WitnessUnknown ==
    /\ last.op = "loadControllerMapping"
    /\ last.arg.controllerType = "akai-apc"
    /\ Cardinality(DOMAIN analog.midiMappings) = 5

\* The table holds the mappings of loadControllerMapping('pioneer-ddj') and
\* no other.
PresetLoaded ==
    analog.midiMappings =
        loadControllerMapping([analog EXCEPT !.midiMappings = <<>>],
                              "pioneer-ddj").midiMappings

\* C33: with the pioneer-ddj preset loaded, a note-on with note 11 from a
\* registered MIDI input starts deck a when it is loaded and not playing,
\* and a message with controller number 13 sets the volume of deck a to
\* data2 / 127.
C33_PresetInEffect ==
    [][PresetLoaded /\ last'.op = "midi"
       /\ last'.arg.inputId \in MidiInputIds
       /\ "a" \in DOMAIN decks
       => /\ last'.arg.data1 = 11 /\ last'.arg.status \div 16 = 9
             /\ TransportState(decks, "a") = "loadedOrPaused"
             /\ audioContext # "null"
             => TransportState(decks', "a") = "playing"
          /\ last'.arg.data1 = 13
             => decks'["a"].gain = Rat(last'.arg.data2, 127)]_vars

\* What the preset does as loaded: its eleven entries are stored under keys
\* that begin with 'undefined', and no message of a registered input finds
\* one of them.
C33_PresetUnreachable ==
    /\ [](\A k \in DOMAIN analog.midiMappings :
            analog.midiMappings[k].inputId = "undefined"
                => k = MappingKey("undefined", analog.midiMappings[k].note))
    /\ [][PresetLoaded /\ last'.op = "midi"
          /\ last'.arg.inputId \in MidiInputIds
          => /\ Cardinality(DOMAIN analog.midiMappings) = 11
             /\ decks' = decks
             /\ sources' = sources
             /\ started' = started]_vars

\* The last step was a syncDecks call or a MIDI message through a mapping
\* that named a deck the hub did not hold.
MissingDeckNamed ==
    \/ /\ last'.op = "syncDecks"
       /\ \/ last'.deck \notin DOMAIN decks
          \/ last'.arg.master \notin DOMAIN decks
    \/ /\ last'.op = "midi"
       /\ MappingKey(last'.arg.inputId, last'.arg.data1)
                \in DOMAIN analog.midiMappings
       /\ MappedDeck \notin DOMAIN decks

C34_WitnessSync ==
    /\ last.op = "syncDecks"
    /\ last.deck = "b"
    /\ last.arg.master = "a"
    /\ "a" \in DOMAIN decks
    /\ decks["a"].bpm = 128

C34_WitnessConnect ==
    /\ last.op = "connectAudioInterface"
    /\ last.deck = "c"
    /\ last.was = "absent"
    /\ "c" \in DOMAIN decks
    /\ decks["c"] = NewDeck("c")

C35_WitnessUnmapped ==
    /\ last.op = "midi"
    /\ last.arg.data1 = 23
    /\ MappingKey("in1", 23) \notin DOMAIN analog.midiMappings
    /\ Len(last.emitted) = 1
    /\ last.emitted[1].name = "onMIDIMessage"
    /\ DOMAIN analog.midiMappings # {}

\* The last step delivered the 'ended' event of a node that was not the one
\* its deck held: a node that play or seek had replaced, or that pause or
\* stop had released.
StaleEnded ==
    /\ last'.op = "ended"
    /\ last'.deck \in DOMAIN decks
    /\ \E s \in DOMAIN sources :
            /\ sources[s].pendingEnded
            /\ s \in DOMAIN sources' => ~sources'[s].pendingEnded
            /\ decks[last'.deck].source # s

\* A deck whose node renders is reported playing.
RenderingIsPlaying ==
    \A d \in DOMAIN decks :
        (decks[d].source # NoSource /\ sources[decks[d].source].playing)
            => decks[d].isPlaying

\* C36: the 'ended' event of a node that play or seek has superseded, or that
\* pause or stop has released, changes no deck, and a deck whose node
\* renders is always reported playing.
C36_StaleEndedIgnored ==
    /\ []RenderingIsPlaying
    /\ [][StaleEnded => decks' = decks]_vars

\* The part of C36 that holds: the 'ended' event of a released node that
\* arrives while its deck is not playing changes nothing.
C36_EndedWhileNotPlaying ==
    [][StaleEnded /\ ~decks[last'.deck].isPlaying => decks' = decks]_vars

\* C37: for every deck with a buffer, the stored position and the position
\* getCurrentTime reports lie in [0, duration].
C37_PositionInRange ==
    \A d \in DOMAIN decks :
        decks[d].buffer # NoBuffer
            => /\ 0 <= decks[d].currentTime
               /\ decks[d].currentTime <= decks[d].duration
               /\ 0 <= getCurrentTime(decks, d, clock)
               /\ getCurrentTime(decks, d, clock) <= decks[d].duration


\* A paused deck kept a position beyond the end of the shorter track that
\* was loaded into it afterwards.
C37_ShorterTrackLoaded ==
    /\ last.op = "loadAudioFile:resolved"
    /\ last.was = "loadedOrPaused"
    /\ "a" \in DOMAIN decks
    /\ ~decks["a"].isPlaying
    /\ decks["a"].currentTime > decks["a"].duration


\* C38: every interval between consecutive peaks that detectPeaks accepts is
\* at least 0.3 s, and the estimate 60 / median before the clamp is at most
\* 200, for every buffer with a sample rate above 0.
C38_PeakSpacing ==
    (last.op = "detectBPM" /\ last.arg.buffer.numberOfChannels # 0
     /\ last.arg.buffer.sampleRate # 0)
        => \A i \in DOMAIN AcceptedIntervals :
            /\ RLe(<<3, 10>>, AcceptedIntervals[i])
            /\ 60 * AcceptedIntervals[i][2] <= 200 * AcceptedIntervals[i][1]

\* The part of C38 that holds: consecutive accepted peaks are at least
\* floor(sampleRate * 0.3) samples apart, that is floor(sampleRate * 0.3) /
\* sampleRate seconds; this is 0.3 s at 44100 and 48000 samples a second
\* and less where sampleRate * 0.3 is no whole number, as at 11025.
C38_PeakSamplesApart ==
    /\ (last.op = "detectBPM" /\ last.arg.buffer.numberOfChannels # 0
        /\ last.arg.buffer.sampleRate # 0)
        => \A i \in DOMAIN AcceptedIntervals :
            RLe(Rat(MinPeakDistance(last.arg.buffer.sampleRate),
                    last.arg.buffer.sampleRate),
                AcceptedIntervals[i])
    /\ Rat(MinPeakDistance(44100), 44100) = <<3, 10>>
    /\ Rat(MinPeakDistance(48000), 48000) = <<3, 10>>
    /\ RLt(Rat(MinPeakDistance(11025), 11025), <<3, 10>>)


\* C39: the master deck of the sync state is null or a deck the hub holds,
\* and syncEnabled is set only while that deck exists.
C39_MasterExists ==
    /\ syncState.masterDeck # "null" => syncState.masterDeck \in DOMAIN decks
    /\ syncState.syncEnabled => syncState.masterDeck \in DOMAIN decks

\* The part of C39 that holds: every step but destroy() keeps it, and
\* destroy() leaves the sync state as it finds it.
C39_KeptUntilDestroy ==
    [][/\ (C39_MasterExists /\ last'.op # "destroy") => C39_MasterExists'
       /\ last'.op = "destroy" => syncState' = syncState]_vars


\* The last step was an enableDVS call for a deck without an audio input.
EnableDVSWithoutInput ==
    /\ last'.op = "enableDVS"
    /\ last'.deck \notin analog.audioInputs

\* C40: enableDVS for a deck without an audio input returns false, calls
\* onInputError once, creates no detector, starts no loop and leaves the
\* AnalogDeck as it was: the dvsEnabled entries, the detector registry and
\* the selected timecode type.
C40_FailedEnableDVS ==
    [][EnableDVSWithoutInput
       => /\ last'.ret = Bool(FALSE)
          /\ Len(last'.emitted) = 1
          /\ last'.emitted[1].name = "onInputError"
          /\ detectors' = detectors
          /\ monitors' = monitors
          /\ streams' = streams
          /\ analog' = analog]_vars

\* The part of C40 that holds: the failed call changes nothing but the
\* selected timecode type, which it sets to its argument.
C40_FailedButForType ==
    [][EnableDVSWithoutInput
       => /\ last'.ret = Bool(FALSE)
          /\ Len(last'.emitted) = 1
          /\ last'.emitted[1].name = "onInputError"
          /\ detectors' = detectors
          /\ monitors' = monitors
          /\ streams' = streams
          /\ decks' = decks
          /\ analog' = [analog EXCEPT
                            !.timecodeType = last'.arg.timecodeType]]_vars

====
